---- MODULE Spec2Model ----
(***************************************************************************)
(* Warp (warp-ipfs): the MessageReferenceList of a conversation            *)
(* (store/conversation/reference.rs) and the RootDocumentMap of an account *)
(* (store/document/root.rs), over a content-addressed object store.        *)
(*                                                                         *)
(* A CID is modelled by the value it addresses: put_dag of equal values    *)
(* gives equal CIDs, and a CID resolves exactly when its value is in the   *)
(* object store.  Option<T> is a sequence of length 0 (None) or 1 (Some).  *)
(***************************************************************************)
EXTENDS Integers, Sequences, FiniteSets, TLC

\* ------------------------------------------------------------------ bounds
\* message ids a caller uses
NumIds == 3
\* mutating calls made on one MessageReferenceList after it was built
MaxCalls == 2
\* calls made on one RootDocumentMap
MaxOps == 3
\* list edits or metadata calls made on one opened account
MaxEdits == 2
\* failed store operations and dropped (cancelled) calls on one RootDocumentMap
MaxFaults == 1

\* the limits of an identity's metadata map, scaled down: its entries, the
\* length of a key, the length of a value
MAX_METADATA_ENTRIES == 1
MAX_METADATA_KEY_LENGTH == 2
MAX_METADATA_VALUE_LENGTH == 2

\* reference.rs:13 is 500; the shard capacity is scaled down so that a chain
\* of several shards is explored
REFERENCE_LENGTH == 1

\* ------------------------------------------------------------ Option<T>
None == <<>>
Some(x) == <<x>>
IsSome(o) == Len(o) = 1
IsNone(o) == Len(o) = 0
Unwrap(o) == o[1]

\* ------------------------------------------------- MessageReferenceList
MsgIds == 1..NumIds
\* two contents per id, so that an update or a second insert can differ
Bodies == {"b1", "b2"}

\* MessageDocument: its id, its content, and whether its own signature
\* verifies (verify() is the document's check of that signature)
MessageDocuments == [id : MsgIds, body : Bodies, sig : BOOLEAN]

MessageDocument_verify(m) == m.sig

\* MessageReferenceList::default()
DefaultList == [messages |-> None, next |-> None]

\* IndexMap<String, Option<Cid>>: entries in insertion order
contains_key(map, id) == \E k \in 1..Len(map) : map[k].id = id
index_of(map, id) == CHOOSE k \in 1..Len(map) : map[k].id = id
map_keys(map) == {map[k].id : k \in 1..Len(map)}

\* put_dag calls granted to one call when the store does not fail
AllPuts == 2 * NumIds + 2

\* the object store as the calls see it: the stored messages, maps and
\* lists, and how many more put_dag calls succeed
Store(msgs, maps, lists, puts) ==
    [msgs |-> msgs, maps |-> maps, lists |-> lists, puts |-> puts]

\* a put_dag of a list that gives its CID and stores nothing
put_list_lost(st, l) == [st EXCEPT !.puts = @ - 1]

\* a put_dag of a map that puts it in the place of the maps stored before
put_map_over(st, map) == [st EXCEPT !.maps = {map}, !.puts = @ - 1]

\* put_dag(value): stores the value unless the store fails
put_ok(st) == st.puts > 0
put_msg(st, m) == [st EXCEPT !.msgs = @ \cup {m}, !.puts = @ - 1]
put_map(st, map) == [st EXCEPT !.maps = @ \cup {map}, !.puts = @ - 1]
put_list(st, l) == [st EXCEPT !.lists = @ \cup {l}, !.puts = @ - 1]

\* a call that hands its caller a default list when it fails
Ret_cleared(ok, err, self, st, cid) ==
    [ok |-> ok, err |-> err, self |-> IF ok THEN self ELSE [messages |-> None, next |-> None],
     st |-> st, cid |-> cid]

\* the result of a mutating call: Ok(cid) or Err(err), the caller's list and
\* the store afterwards
Ret(ok, err, self, st, cid) ==
    [ok |-> ok, err |-> err, self |-> self, st |-> st, cid |-> cid]

\* a threshold reached one entry earlier
at_threshold_early(len) == len >= REFERENCE_LENGTH

\* the shard threshold of insert (reference.rs:39)
at_threshold(len) == len > REFERENCE_LENGTH

\* insert with the duplicate check left out
already_exists_unchecked(list_refs, message) == FALSE

\* a duplicate check made only in the shard the message goes into
already_exists_where_put(list_refs, message) ==
    contains_key(list_refs, message.id) /\ ~at_threshold(Len(list_refs))

\* insert's duplicate check on the shard it looks at (reference.rs:35)
already_exists(list_refs, message) == contains_key(list_refs, message.id)

RECURSIVE insert(_, _, _)
insert(self, message, st) ==
    IF IsSome(self.messages) /\ Unwrap(self.messages) \notin st.maps
    THEN Ret(FALSE, "Any", self, st, None)
    ELSE
    LET list_refs == IF IsSome(self.messages) THEN Unwrap(self.messages) ELSE <<>>
    IN  IF already_exists(list_refs, message)
        THEN Ret(FALSE, "MessageFound", self, st, None)
        ELSE IF at_threshold(Len(list_refs))
        THEN IF IsSome(self.next) /\ Unwrap(self.next) \notin st.lists
             THEN Ret(FALSE, "Any", self, st, None)
             ELSE
             LET next_ref == IF IsSome(self.next) THEN Unwrap(self.next) ELSE DefaultList
                 r == insert(next_ref, message, st)
             IN  IF ~r.ok THEN Ret(FALSE, r.err, self, r.st, None)
                 ELSE IF ~put_ok(r.st) THEN Ret(FALSE, "Any", self, r.st, None)
                 ELSE Ret(TRUE, "", [self EXCEPT !.next = Some(r.self)],
                          put_list(r.st, r.self), r.cid)
        ELSE IF ~put_ok(st) THEN Ret(FALSE, "Any", self, st, None)
        ELSE
        LET st1 == put_msg(st, message)
            map1 == Append(list_refs, [id |-> message.id, ref |-> Some(message)])
        IN  IF ~put_ok(st1) THEN Ret(FALSE, "Any", self, st1, None)
            ELSE Ret(TRUE, "", [self EXCEPT !.messages = Some(map1)],
                     put_map(st1, map1), Some(message))

\* an update that treats its message as insert does
update_as_insert(self, message, st) == insert(self, message, st)

RECURSIVE update(_, _, _)
update(self, message, st) ==
    IF IsSome(self.messages) /\ Unwrap(self.messages) \notin st.maps
    THEN Ret(FALSE, "Any", self, st, None)
    ELSE
    LET list_refs == IF IsSome(self.messages) THEN Unwrap(self.messages) ELSE <<>>
        id == message.id
    IN  IF ~contains_key(list_refs, id)
        THEN IF IsNone(self.next) THEN Ret(FALSE, "MessageNotFound", self, st, None)
             ELSE IF Unwrap(self.next) \notin st.lists
             THEN Ret(FALSE, "Any", self, st, None)
             ELSE
             LET r == update(Unwrap(self.next), message, st)
             IN  IF ~r.ok THEN Ret(FALSE, r.err, self, r.st, None)
                 ELSE IF ~put_ok(r.st) THEN Ret(FALSE, "Any", self, r.st, None)
                 ELSE Ret(TRUE, "", [self EXCEPT !.next = Some(r.self)],
                          put_list(r.st, r.self), r.cid)
        ELSE IF IsNone(list_refs[index_of(list_refs, id)].ref)
        THEN Ret(FALSE, "MessageNotFound", self, st, None)
        ELSE IF ~put_ok(st) THEN Ret(FALSE, "Any", self, st, None)
        ELSE
        LET st1 == put_msg(st, message)
            map1 == [list_refs EXCEPT ![index_of(list_refs, id)].ref = Some(message)]
        IN  IF ~put_ok(st1) THEN Ret(FALSE, "Any", self, st1, None)
            ELSE Ret(TRUE, "", [self EXCEPT !.messages = Some(map1)],
                     put_map(st1, map1), Some(message))

\* remove that drops the entry, key and all
take_entry(list, k) == SubSeq(list, 1, k - 1) \o SubSeq(list, k + 1, Len(list))

\* remove that leaves the entry as it was
take_nothing(list, k) == list

\* item.take(): the entry keeps its key and loses its value (reference.rs:275)
take(list, k) == [list EXCEPT ![k].ref = None]

\* a remove that takes an entry marked None for one with a value
never_none(item) == FALSE

\* item.is_none() (reference.rs:271)
is_none(item) == IsNone(item.ref)

RECURSIVE remove(_, _, _)
remove(self, message_id, st) ==
    IF IsNone(self.messages) THEN Ret(FALSE, "MessageNotFound", self, st, None)
    ELSE IF Unwrap(self.messages) \notin st.maps THEN Ret(FALSE, "Any", self, st, None)
    ELSE
    LET list == Unwrap(self.messages)
    IN  IF contains_key(list, message_id)
        THEN IF is_none(list[index_of(list, message_id)])
             THEN Ret(FALSE, "MessageNotFound", self, st, None)
             ELSE IF ~put_ok(st) THEN Ret(FALSE, "Any", self, st, None)
             ELSE
             LET map1 == take(list, index_of(list, message_id))
             IN  Ret(TRUE, "", [self EXCEPT !.messages = Some(map1)],
                     put_map(st, map1), None)
        ELSE IF IsNone(self.next) THEN Ret(FALSE, "MessageNotFound", self, st, None)
        ELSE IF Unwrap(self.next) \notin st.lists THEN Ret(FALSE, "Any", self, st, None)
        ELSE
        LET r == remove(Unwrap(self.next), message_id, st)
        IN  IF ~r.ok THEN Ret(FALSE, r.err, self, r.st, None)
            ELSE IF ~put_ok(r.st) THEN Ret(FALSE, "Any", self, r.st, None)
            ELSE Ret(TRUE, "", [self EXCEPT !.next = Some(r.self)],
                     put_list(r.st, r.self), None)

\* the result of get: Ok(val) or Err(err)
Got(ok, err, val) == [ok |-> ok, err |-> err, val |-> val]

\* get_dag(<map cid>/<id>) as a MessageDocument: the map, its entry for id,
\* the entry's link and the linked message must all resolve
path_resolves(map, id, st) ==
    /\ map \in st.maps
    /\ contains_key(map, id)
    /\ IsSome(map[index_of(map, id)].ref)
    /\ Unwrap(map[index_of(map, id)].ref) \in st.msgs

\* a get that gives up after its own shard
get_first_shard(self, message_id, st) ==
    IF IsNone(self.messages) THEN Got(FALSE, "MessageNotFound", None)
    ELSE
    LET cid == Unwrap(self.messages)
    IN  IF path_resolves(cid, message_id, st)
        THEN LET message_document == Unwrap(cid[index_of(cid, message_id)].ref)
             IN  IF ~MessageDocument_verify(message_document)
                 THEN Got(FALSE, "Verify", None)
                 ELSE Got(TRUE, "", Some(message_document))
        ELSE Got(FALSE, "MessageNotFound", None)

RECURSIVE get(_, _, _)
get(self, message_id, st) ==
    IF IsNone(self.messages) THEN Got(FALSE, "MessageNotFound", None)
    ELSE
    LET cid == Unwrap(self.messages)
    IN  IF path_resolves(cid, message_id, st)
        THEN LET message_document == Unwrap(cid[index_of(cid, message_id)].ref)
             IN  IF ~MessageDocument_verify(message_document)
                 THEN Got(FALSE, "Verify", None)
                 ELSE Got(TRUE, "", Some(message_document))
        ELSE IF IsNone(self.next) THEN Got(FALSE, "MessageNotFound", None)
        ELSE IF Unwrap(self.next) \notin st.lists THEN Got(FALSE, "Any", None)
        ELSE get(Unwrap(self.next), message_id, st)

\* contains resolves the CID of its own map a second time (reference.rs:213),
\* now as a MessageReferenceList: a map keyed by message ids has neither a
\* "messages" nor a "next" field, so the decoded list is the empty one
map_as_list(cid) == DefaultList

RECURSIVE contains(_, _, _)
contains(self, message_id, st) ==
    IF IsNone(self.messages) THEN FALSE
    ELSE
    LET cid == Unwrap(self.messages)
    IN  IF cid \notin st.maps THEN FALSE
        ELSE IF /\ contains_key(cid, message_id)
                /\ IsSome(cid[index_of(cid, message_id)].ref)
        THEN TRUE
        ELSE contains(map_as_list(cid), message_id, st)

\* a count that takes the entries marked None too
every_entry(map) == 1..Len(map)

\* the entries of a map that are not marked None
live(map) == {k \in 1..Len(map) : IsSome(map[k].ref)}

RECURSIVE count(_, _)
count(self, st) ==
    IF IsNone(self.messages) THEN 0
    ELSE IF Unwrap(self.messages) \notin st.maps THEN 0
    ELSE
    LET c == Cardinality(live(Unwrap(self.messages)))
    IN  IF IsNone(self.next) THEN c
        ELSE IF Unwrap(self.next) \notin st.lists THEN c
        ELSE count(Unwrap(self.next), st) + c

\* the messages one shard's map yields, in map order
RECURSIVE yield(_, _, _)
yield(map, k, st) ==
    IF k > Len(map) THEN <<>>
    ELSE IF IsSome(map[k].ref) /\ Unwrap(map[k].ref) \in st.msgs
    THEN <<Unwrap(map[k].ref)>> \o yield(map, k + 1, st)
    ELSE yield(map, k + 1, st)

\* a list that ends with its first shard
list_first_shard(self, st) ==
    IF IsNone(self.messages) THEN <<>>
    ELSE IF Unwrap(self.messages) \notin st.maps THEN <<>>
    ELSE yield(Unwrap(self.messages), 1, st)

RECURSIVE list(_, _)
\* a list that yields what next holds before its own shard
list_next_first(self, st) ==
    IF IsNone(self.messages) THEN <<>>
    ELSE IF Unwrap(self.messages) \notin st.maps THEN <<>>
    ELSE
    LET head == yield(Unwrap(self.messages), 1, st)
    IN  IF IsNone(self.next) THEN head
        ELSE IF Unwrap(self.next) \notin st.lists THEN head
        ELSE list(Unwrap(self.next), st) \o head

list(self, st) ==
    IF IsNone(self.messages) THEN <<>>
    ELSE IF Unwrap(self.messages) \notin st.maps THEN <<>>
    ELSE
    LET head == yield(Unwrap(self.messages), 1, st)
    IN  IF IsNone(self.next) THEN head
        ELSE IF Unwrap(self.next) \notin st.lists THEN head
        ELSE head \o list(Unwrap(self.next), st)

\* shrink's loop (reference.rs:311-313): the messages the old list yields,
\* from the k-th on, inserted into new_list one after another
RECURSIVE shrink_from(_, _, _, _)
shrink_from(new_list, messages, k, st) ==
    IF k > Len(messages) THEN Ret(TRUE, "", new_list, st, Some(new_list))
    ELSE LET r == insert(new_list, messages[k], st)
         IN  IF ~r.ok THEN Ret(FALSE, r.err, new_list, r.st, None)
             ELSE shrink_from(r.self, messages, k + 1, r.st)

\* a shrink that returns the list it was given
shrink_kept(self, st) == Ret(TRUE, "", self, st, Some(self))

\* shrink (reference.rs:308-315): Ok(new_list), the list that was consumed,
\* and the store with what the inserts put
shrink(self, st) ==
    LET r == shrink_from(DefaultList, list(self, st), 1, st)
    IN  Ret(r.ok, r.err, self, r.st, r.cid)

\* the shards of a chain, first shard first, as the maps they hold
RECURSIVE shards(_)
shards(self) ==
    <<IF IsSome(self.messages) THEN Unwrap(self.messages) ELSE <<>> >>
       \o (IF IsSome(self.next) THEN shards(Unwrap(self.next)) ELSE <<>>)

\* ------------------------------------------------------- RootDocumentMap
\* the account's key pair (RootDocumentInner::keypair)
Keypair == "account"

\* the keys the friend and block lists hold
DIDs == {"a", "b"}

\* IdentityDocument::sign(keypair) and IdentityDocument::verify, as for the
\* root: a signature by the key pair over all the other fields
sign_identity(document, keypair) ==
    [document EXCEPT !.signature =
        Some([by |-> keypair, over |-> [document EXCEPT !.signature = None]])]

verify_identity(document) ==
    /\ IsSome(document.signature)
    /\ Unwrap(document.signature)
         = [by |-> Keypair, over |-> [document EXCEPT !.signature = None]]

\* the identity document a root names: no status and no metadata yet
Identity ==
    sign_identity([username |-> "user", status |-> None, arb_data |-> None,
                   signature |-> None], Keypair)

\* the identity document of an account that has stored the metadata map
IdentityWith(map) ==
    IF map = <<>> THEN Identity
    ELSE sign_identity([username |-> "user", status |-> None,
                        arb_data |-> Some(map), signature |-> None], Keypair)

\* ecdh_encrypt(keypair, None, serde_json::to_vec(&list)): the blob names the
\* key it was encrypted under and carries the JSON text of the list
ecdh_encrypt(key, items) == [enc |-> key, json |-> items]

\* RootDocument: every field but identity is an Option<Cid>
RootDocument(identity, friends, blocks) ==
    [identity |-> identity, friends |-> friends, blocks |-> blocks,
     block_by |-> None, request |-> None, conversations |-> None,
     communities |-> None, keystore |-> None, file_index |-> None,
     signature |-> None]

\* the fields a signature covers: all but the signature
payload(document) == [document EXCEPT !.signature = None]

\* RootDocument::sign(keypair): the document with a signature by keypair over
\* all its other fields
sign(document, keypair) ==
    [document EXCEPT !.signature = Some([by |-> keypair, over |-> payload(document)])]

\* RootDocument::verify: the signature is the account key's over the other
\* fields as they are now
verify(document) ==
    /\ IsSome(document.signature)
    /\ Unwrap(document.signature) = [by |-> Keypair, over |-> payload(document)]

\* a Result<RootDocument, Error>
Res(ok, err, val) == [ok |-> ok, err |-> err, val |-> val]

\* get_root_document: the document at the current CID, from the local
\* store, verified
get_root_document(c, rs) ==
    IF IsNone(c) THEN Res(FALSE, "Other", None)
    ELSE IF Unwrap(c) \notin rs THEN Res(FALSE, "Any", None)
    ELSE IF ~verify(Unwrap(c)) THEN Res(FALSE, "Verify", None)
    ELSE Res(TRUE, "", c)

\* a list read whatever key it was encrypted under
read_unchecked(field, bs) ==
    IF IsSome(field) /\ Unwrap(field) \in bs THEN Unwrap(field).json ELSE <<>>

\* the list behind a root's optional field: fetched from the local store,
\* decrypted with the account key and JSON-decoded, or empty when the field
\* is None or any of these steps fails (unwrap_or_default)
read_list(field, bs) ==
    IF IsSome(field) /\ Unwrap(field) \in bs /\ Unwrap(field).enc = Keypair
    THEN Unwrap(field).json
    ELSE <<>>

\* friend_list / block_list: the list under the current root CID
field_list(c, name, rs, bs) ==
    IF IsNone(c) THEN <<>>
    ELSE IF Unwrap(c) \notin rs THEN <<>>
    ELSE read_list(Unwrap(c)[name], bs)

friend_list(c, rs, bs) == field_list(c, "friends", rs, bs)
block_list(c, rs, bs) == field_list(c, "blocks", rs, bs)

elems(seq) == {seq[k] : k \in 1..Len(seq)}

\* VecExt::insert_item: appends the item unless the list holds it already
insert_item(l, item) == IF item \in elems(l) THEN l ELSE Append(l, item)

\* VecExt::remove_item: takes the item out of the list if the list holds it
remove_item(l, item) == SelectSeq(l, LAMBDA x : x /= item)

\* the operations that add a key to a list of the root and those that take
\* one out
AddOps == {"add_friend", "block_key", "add_blockby_key", "add_request"}
RemoveOps == {"remove_friend", "unblock_key", "remove_blockby_key", "remove_request"}

\* every operation working on the friends
field_friends(op) == "friends"

\* the root field an operation works on, and the error it gives for a key
\* that is already there
field_of(op) ==
    CASE op \in {"add_friend", "remove_friend"} -> "friends"
      [] op \in {"block_key", "unblock_key"} -> "blocks"
      [] op \in {"add_blockby_key", "remove_blockby_key"} -> "block_by"
      [] OTHER -> "request"
exists_error(op) == IF op = "add_friend" THEN "FriendExist" ELSE "PublicKeyIsBlocked"

\* the error an operation gives when insert_item / remove_item leaves the
\* list as it was (root.rs:529, 563, 617, 682, 749, 784, 839, 874)
unchanged_error(op) ==
    CASE op = "add_friend" -> "FriendExist"
      [] op = "remove_friend" -> "FriendDoesntExist"
      [] op = "block_key" -> "PublicKeyIsBlocked"
      [] op \in {"add_request", "remove_request"} -> "FriendRequestExist"
      [] OTHER -> "PublicKeyIsntBlocked"

\* the list an operation leaves: insert_item for the adds, remove_item for
\* the removes
edited(op, l, item) ==
    IF op \in AddOps THEN insert_item(l, item) ELSE remove_item(l, item)

\* a field that names a blob even for an empty list
blob_always(l) == Some(ecdh_encrypt(Keypair, l))

\* the field an operation writes for its list (root.rs:685-691): the CID of
\* the encrypted list, or None for an empty list
field_for(l) == IF l /= <<>> THEN Some(ecdh_encrypt(Keypair, l)) ELSE None

\* ---- the list accessors
\* the fields of the root that name a list
ListFields == {"friends", "blocks", "block_by", "request"}

\* a result passed on as it is, an error with it
as_it_is(r) == r

\* .unwrap_or_default() and Ok(list) (root.rs:506-508): an error of the
\* steps before becomes the empty list
or_default(r) == IF r.ok THEN r ELSE Res(TRUE, "", Some(<<>>))

\* get_dag(<root cid>/<name>).local().deserialized::<Vec<u8>>(), ecdh_decrypt
\* and serde_json::from_slice (root.rs:496-505): an error when the root, the
\* field or the bytes do not resolve, or the bytes are not a list encrypted
\* under the account's key
fetch_list(c, name, rs, bs) ==
    IF Unwrap(c) \notin rs THEN Res(FALSE, "Any", None)
    ELSE IF IsNone(Unwrap(c)[name]) THEN Res(FALSE, "Any", None)
    ELSE IF Unwrap(Unwrap(c)[name]) \notin bs THEN Res(FALSE, "Any", None)
    ELSE IF Unwrap(Unwrap(c)[name]).enc /= Keypair THEN Res(FALSE, "Any", None)
    ELSE Res(TRUE, "", Some(Unwrap(Unwrap(c)[name]).json))

\* request_list, friend_list, block_list, blockby_list (root.rs:490-509,
\* 578-596, 698-716, 800-818)
get_list(c, name, rs, bs) ==
    IF IsNone(c) THEN Res(TRUE, "", Some(<<>>))
    ELSE or_default(fetch_list(c, name, rs, bs))

\* ---- the request list and its two schemas
\* a list put as a DAG node of its own, not as encrypted bytes
dag_list(items) == [enc |-> "dag", json |-> items]

\* OldRequest::In(did) / Out(did) and Request::In { did, date } / Out { .. }
Directions == {"In", "Out"}
OldRequest(dir, did) == [dir |-> dir, did |-> did, date |-> None]
Request(dir, did, date) == [dir |-> dir, did |-> did, date |-> Some(date)]

\* a migrate that takes every list it finds for a legacy one
any_requests(field, bs) ==
    IF Unwrap(field) \in bs THEN Unwrap(field).json ELSE <<>>

\* get_dag(cid).local().deserialized::<Vec<OldRequest>>().unwrap_or_default()
\* (root.rs:280-286): the list when it is a stored DAG list of legacy records
old_requests(field, bs) ==
    IF /\ Unwrap(field) \in bs
       /\ Unwrap(field).enc = "dag"
       /\ \A k \in 1..Len(Unwrap(field).json) : IsNone(Unwrap(field).json[k].date)
    THEN Unwrap(field).json
    ELSE <<>>

\* every legacy record as a record of the current schema, dated Utc::now()
\* (root.rs:292-304)
translated(records) ==
    [k \in 1..Len(records) |-> Request(records[k].dir, records[k].did, "now")]

\* ---- conversations and communities
\* the two root-level maps, by the field of the root that names them
Kinds == {"conversations", "communities"}

\* Error::InvalidConversation / Error::InvalidCommunity
Invalid(kind) ==
    IF kind = "conversations" THEN "InvalidConversation" ELSE "InvalidCommunity"

\* the UUIDs in use
ConvIds == {"c1", "c2"}

\* a ConversationDocument / CommunityDocument: its UUID, its tombstone flag
\* and its signature
ConversationDocument(id, deleted) ==
    [id |-> id, deleted |-> deleted, signature |-> None]

\* the document signed over its other fields
sign_conversation(document, key) ==
    [document EXCEPT !.signature =
        Some([by |-> key, over |-> [document EXCEPT !.signature = None]])]

\* ConversationDocument::verify / CommunityDocument::verify: the signature is
\* over the other fields as they are now
verify_conversation(document) ==
    /\ IsSome(document.signature)
    /\ Unwrap(document.signature).over = [document EXCEPT !.signature = None]

\* BTreeMap::new()
EmptyMap == <<>>

\* a map that drops what it held and keeps the new entry alone
insert_alone(map, id, c) == [k \in {id} |-> c]

\* BTreeMap::insert(id, cid)
conv_insert(map, id, c) ==
    [k \in DOMAIN map \cup {id} |-> IF k = id THEN c ELSE map[k]]

\* get_dag(cid).local().deserialized().await.unwrap_or_default() of the map
\* a field names (root.rs:962-969, 1001-1006): empty when it is not stored
conv_map(field, ms) ==
    IF IsSome(field) /\ Unwrap(field) \in ms THEN Unwrap(field) ELSE EmptyMap

\* .filter(|document| !document.deleted) (root.rs:1014-1017)
not_deleted(documents) == {d \in documents : ~d.deleted}

\* get_conversation_document / get_community_document (root.rs:928-952,
\* 1067-1091)
get_conversation_document(c, kind, id, rs, ms, ds) ==
    LET root == get_root_document(c, rs)
        field == Unwrap(root.val)[kind]
    IN  IF ~root.ok THEN Res(FALSE, root.err, None)
        ELSE IF IsNone(field) THEN Res(FALSE, Invalid(kind), None)
        ELSE IF Unwrap(field) \notin ms THEN Res(FALSE, "Any", None)
        ELSE IF id \notin DOMAIN Unwrap(field) THEN Res(FALSE, "Any", None)
        ELSE IF Unwrap(field)[id] \notin ds THEN Res(FALSE, "Any", None)
        ELSE IF ~verify_conversation(Unwrap(field)[id])
        THEN Res(FALSE, "Verify", None)
        ELSE IF Unwrap(field)[id].deleted THEN Res(FALSE, Invalid(kind), None)
        ELSE Res(TRUE, "", Some(Unwrap(field)[id]))

\* list_conversation_stream / list_community_stream (root.rs:987-1025,
\* 1027-1065): the documents the stream yields, in no order; an entry whose
\* document is not stored as one does not decode and is dropped
list_conversation_stream(c, kind, rs, ms, ds) ==
    LET root == get_root_document(c, rs)
        map == conv_map(Unwrap(root.val)[kind], ms)
    IN  IF ~root.ok THEN {}
        ELSE IF IsNone(Unwrap(root.val)[kind]) THEN {}
        ELSE not_deleted({map[k] : k \in DOMAIN map} \cap ds)

\* ---- the metadata of the identity
\* a String of n characters c
Str(c, n) == [i \in 1..n |-> c]

\* the keys a caller uses: one more short key than the map may hold, and a
\* key one character over the limit
MetaKeys ==
    {Str(k, 1) : k \in 1..(MAX_METADATA_ENTRIES + 1)}
       \cup {Str(1, MAX_METADATA_KEY_LENGTH + 1)}

\* the values a caller uses: two short ones and one over the limit
MetaVals ==
    {Str("v", 1), Str("w", 1), Str("v", MAX_METADATA_VALUE_LENGTH + 1)}

\* a length check that lets everything through
never_over(string, maximum) == FALSE

\* key.len() > MAX_METADATA_KEY_LENGTH, val.len() > MAX_METADATA_VALUE_LENGTH
\* (root.rs:399, 408)
over(string, maximum) == Len(string) > maximum

\* a map that takes a new key however many it holds
never_full(map, key) == FALSE

\* IndexMap<String, String>: entries in insertion order
has_key(map, key) == \E k \in 1..Len(map) : map[k].key = key

\* !map.contains_key(&key) && map.len() >= MAX_METADATA_ENTRIES (root.rs:428)
full_for(map, key) == ~has_key(map, key) /\ Len(map) >= MAX_METADATA_ENTRIES

\* map.insert(key, val): the value of an existing key replaced in place, a
\* new key appended
map_insert(map, key, val) ==
    IF has_key(map, key)
    THEN [k \in 1..Len(map) |->
            IF map[k].key = key THEN [key |-> key, val |-> val] ELSE map[k]]
    ELSE Append(map, [key |-> key, val |-> val])

\* map.shift_remove(&key): the entry taken out, the order of the rest kept
shift_remove(map, key) == SelectSeq(map, LAMBDA e : e.key /= key)

\* identity(): the identity document the current root names, from the local
\* store, verified (root.rs:327-338)
identity(c, rs, ids) ==
    LET root == get_root_document(c, rs)
    IN  IF ~root.ok THEN Res(FALSE, root.err, None)
        ELSE IF Unwrap(root.val).identity \notin ids THEN Res(FALSE, "Any", None)
        ELSE IF ~verify_identity(Unwrap(root.val).identity)
        THEN Res(FALSE, "Verify", None)
        ELSE Res(TRUE, "", Some(Unwrap(root.val).identity))

\* the metadata map behind arb_data, or the empty map when arb_data is None
\* or does not resolve (unwrap_or_default, root.rs:417-426)
arb_data_map(arb_data, ms) ==
    IF IsSome(arb_data) /\ Unwrap(arb_data) \in ms THEN Unwrap(arb_data)
    ELSE <<>>

\* the metadata map a caller reads through identity()
metadata(c, rs, ids, ms) ==
    IF identity(c, rs, ids).ok
    THEN arb_data_map(Unwrap(identity(c, rs, ids).val).arb_data, ms)
    ELSE <<>>

\* a write lock granted while readers hold the lock
may_write_beside_readers(l) == IsNone(l.writer)

\* a write lock granted while another writer holds the lock
may_write_beside_writer(l) == l.readers = {}

\* a read lock granted while a writer holds the lock
may_read_beside_writer(l) == TRUE

\* tokio RwLock: read() is granted when no writer holds the lock, write()
\* when nobody holds it
may_read(l) == IsNone(l.writer)
may_write(l) == IsNone(l.writer) /\ l.readers = {}

\* the in-memory CID that keeps the root it had
keep_cid(c, root_cid) == c

\* the current root swapped whether or not the pin was made
after_pin_unchecked(ok, c, root_cid) == Some(root_cid)

\* self.cid.replace(root_cid) (root.rs:362): the new current root
replace(c, root_cid) == Some(root_cid)

\* insert_pin(..).await? comes before the swap (root.rs:356-362): a failed pin
\* returns with the current root as it was
after_pin(ok, c, root_cid) == IF ok THEN replace(c, root_cid) ELSE c

\* root_cid.to_string() as written to the data store, and the parse of
\* RootDocumentMap::new
to_string(root_cid) == <<"cid", root_cid>>
parse(bytes) ==
    IF IsSome(bytes) /\ Len(Unwrap(bytes)) = 2 /\ Unwrap(bytes)[1] = "cid"
    THEN Some(Unwrap(bytes)[2])
    ELSE None

\* the documents a caller hands to set
SetDocuments ==
    {RootDocument(Identity, f, None) :
        f \in {None} \cup {Some(ecdh_encrypt(Keypair, <<d>>)) : d \in DIDs}}

Tasks == {"t1", "t2"}

VARIABLES
    mrl,    \* the caller's MessageReferenceList (the first shard of the chain)
    msgs,   \* object store: the stored MessageDocuments
    maps,   \* object store: the stored shard maps
    lists,  \* object store: the stored MessageReferenceLists
    calls,  \* mutating calls made so far
    last,   \* the last mutating call: its arguments, its result, the list before it
    hist    \* the ids the calls so far have inserted, and those they have removed

refvars == <<mrl, msgs, maps, lists, calls, last, hist>>

VARIABLES
    cid,         \* RootDocumentInner.cid: the current root in memory
    data_store,  \* the data store's value under ipfs.root(): the persistent pointer
    pinned,      \* the recursively pinned roots
    roots,       \* object store: the stored RootDocuments
    blobs,       \* object store: the stored encrypted lists
    idents,      \* object store: the stored IdentityDocuments
    metas,       \* object store: the stored metadata maps
    rwlock,      \* RootDocumentMap.inner: the RwLock's holders
    tk,          \* each task's call: where it is and its locals
    done,        \* the call that returned last: its arguments and its result
    nops,        \* calls begun so far
    nfaults,     \* store failures and dropped calls so far
    lastcs,      \* the last write call that left its critical section
    expect,      \* the keys committed to each list since the last set
    clean        \* every write call so far has returned Ok

rootvars == <<cid, data_store, pinned, roots, blobs, idents, metas, rwlock, tk, done, nops,
              nfaults, lastcs, expect, clean>>

VARIABLES
    convs,       \* object store: the stored Conversation- and CommunityDocuments
    cmaps        \* object store: the stored maps from id string to document

convvars == <<convs, cmaps>>

vars == <<refvars, rootvars, convvars>>

\* the store when no put_dag fails
ipfs == Store(msgs, maps, lists, AllPuts)

NoHistory == [inserted |-> {}, removed |-> {}]

NoCall ==
    [op |-> "none", id |-> 0, arg |-> None, ok |-> FALSE, err |-> "",
     pre |-> DefaultList, out |-> None, hist |-> NoHistory]

\* the store a call left, as the next call finds it when no put_dag fails
next_call(st) == Store(st.msgs, st.maps, st.lists, AllPuts)

\* a list as a conversation has built it: the messages 1..k inserted, in
\* this order, into a default list over an empty store
RECURSIVE built(_)
built(k) ==
    IF k = 0 THEN Ret(TRUE, "", DefaultList, Store({}, {}, {}, AllPuts), None)
    ELSE insert(built(k - 1).self, [id |-> k, body |-> "b1", sig |-> TRUE],
                next_call(built(k - 1).st))

\* ... and the message gone removed from it afterwards (none when gone = 0)
built_less(k, gone) ==
    IF gone = 0 THEN built(k)
    ELSE remove(built(k).self, gone, next_call(built(k).st))

\* no conversation: a default list over an empty store
NoConversation ==
    /\ mrl = DefaultList
    /\ msgs = {}
    /\ maps = {}
    /\ lists = {}
    /\ calls = 0
    /\ last = NoCall
    /\ hist = NoHistory

InitRefVars ==
    \E k \in 0..NumIds : \E gone \in 0..k :
       /\ mrl = built_less(k, gone).self
       /\ msgs = built_less(k, gone).st.msgs
       /\ maps = built_less(k, gone).st.maps
       /\ lists = built_less(k, gone).st.lists
       /\ calls = 0
       /\ last = [NoCall EXCEPT !.pre = built_less(k, gone).self]
       /\ hist = [inserted |-> 1..k, removed |-> (1..k) \cap {gone}]

\* the ids inserted and removed, after a call op(id) that returned ok
History(op, id, ok) ==
    [inserted |-> IF ok /\ op = "insert" THEN hist.inserted \cup {id}
                  ELSE hist.inserted,
     removed |-> IF ok /\ op = "remove" THEN hist.removed \cup {id}
                 ELSE hist.removed]

\* the caller keeps the list the call left and sees its result
Commit(r, op, id, arg) ==
    /\ mrl' = r.self
    /\ msgs' = r.st.msgs
    /\ maps' = r.st.maps
    /\ lists' = r.st.lists
    /\ calls' = calls + 1
    /\ last' = [op |-> op, id |-> id, arg |-> arg, ok |-> r.ok, err |-> r.err,
                pre |-> mrl, out |-> r.cid, hist |-> hist]
    /\ hist' = History(op, id, r.ok)
    /\ UNCHANGED <<rootvars, convvars>>

Insert ==
    /\ calls < MaxCalls
    /\ \E message \in MessageDocuments :
          Commit(insert(mrl, message, ipfs), "insert", message.id, Some(message))

Update ==
    /\ calls < MaxCalls
    /\ \E message \in MessageDocuments :
          Commit(update(mrl, message, ipfs), "update", message.id, Some(message))

Remove ==
    /\ calls < MaxCalls
    /\ \E message_id \in MsgIds :
          Commit(remove(mrl, message_id, ipfs), "remove", message_id, None)

\* shrink takes the list by value: it is the last call made on it, and what
\* it returns is a list of its own
Shrink ==
    /\ calls <= MaxCalls
    /\ LET r == shrink(mrl, ipfs)
       IN  /\ msgs' = r.st.msgs
           /\ maps' = r.st.maps
           /\ lists' = r.st.lists
           /\ last' = [op |-> "shrink", id |-> 0, arg |-> None, ok |-> r.ok,
                       err |-> r.err, pre |-> mrl, out |-> r.cid, hist |-> hist]
    /\ calls' = MaxCalls + 1
    /\ UNCHANGED <<mrl, hist>>
    /\ UNCHANGED <<rootvars, convvars>>

\* what a write call finds when it takes the lock
Snapshot == [cid |-> cid, data_store |-> data_store, pinned |-> pinned,
             roots |-> roots, blobs |-> blobs, idents |-> idents,
             metas |-> metas, convs |-> convs, cmaps |-> cmaps]

NoSnapshot == [cid |-> None, data_store |-> None, pinned |-> {},
               roots |-> {}, blobs |-> {}, idents |-> {}, metas |-> {},
               convs |-> {}, cmaps |-> {}]

\* an account without conversations and communities
NoDocuments == convs = {} /\ cmaps = {}

NoWrite == [op |-> "none", arg |-> None, ret |-> ""]

NoTask ==
    [pc |-> "idle", op |-> "none", arg |-> None, document |-> None,
     blob |-> None, old_cid |-> None, ptr |-> "none", pre |-> NoSnapshot]

NoneDone ==
    [op |-> "none", arg |-> None, ret |-> "", err |-> "", at |-> "",
     val |-> None, ptr |-> "none", pre |-> NoSnapshot, again |-> None]

\* RootDocumentMap::new on an empty repository: no pointer, nothing to migrate
InitRootVars ==
    /\ cid = parse(None)
    /\ data_store = None
    /\ pinned = {}
    /\ roots = {}
    /\ blobs = {}
    /\ idents = {Identity}
    /\ metas = {}
    /\ rwlock = [writer |-> None, readers |-> {}]
    /\ tk = [t \in Tasks |-> NoTask]
    /\ done = NoneDone
    /\ nops = 0
    /\ nfaults = 0
    /\ lastcs = NoWrite
    /\ expect = [friends |-> {}, blocks |-> {}]
    /\ clean = TRUE

\* the root of an account as its creation committed it: every list absent
Account == sign(RootDocument(Identity, None, None), Keypair)

\* the root document of an account whose identity has the metadata map
AccountWith(map) == sign(RootDocument(IdentityWith(map), None, None), Keypair)

\* the metadata map after k keys were added to it one after another
Metadata(k) == [i \in 1..k |-> [key |-> Str(i, 1), val |-> Str("v", 1)]]

\* RootDocumentMap::new on the repository of an existing account: the pointer
\* names the account's root, which is stored and pinned
Opened(map) ==
    /\ data_store = Some(to_string(AccountWith(map)))
    /\ cid = parse(data_store)
    /\ pinned = {AccountWith(map)}
    /\ roots = {AccountWith(map)}
    /\ blobs = {}
    /\ idents = {IdentityWith(map)}
    /\ metas = {map} \ {<<>>}
    /\ rwlock = [writer |-> None, readers |-> {}]
    /\ tk = [t \in Tasks |-> NoTask]
    /\ done = NoneDone
    /\ nops = 0
    /\ nfaults = 0
    /\ lastcs = NoWrite
    /\ expect = [friends |-> {}, blocks |-> {}]
    /\ clean = TRUE

\* an account without metadata
OpenedAccount == Opened(<<>>)

\* ---- an account that holds contacts
\* how the list behind a field of the root is found: no CID in the field, a
\* list that reads, a CID that does not resolve, bytes encrypted under
\* another key, bytes of the account's key that are no JSON list
ListStates == {"absent", "readable", "lost", "foreign", "garbled"}

\* bytes that decrypt under the account's key and do not decode as a list
garbled_list(items) == [enc |-> "text", json |-> items]

\* the keys each list of the account was given
held_items(name) ==
    CASE name = "friends" -> <<"a">>
      [] name = "blocks" -> <<"b">>
      [] name = "block_by" -> <<"a", "b">>
      [] OTHER -> <<"b", "a">>

held_field(name, state) ==
    CASE state = "absent" -> None
      [] state = "foreign" -> Some(ecdh_encrypt("other", held_items(name)))
      [] state = "garbled" -> Some(garbled_list(held_items(name)))
      [] OTHER -> Some(ecdh_encrypt(Keypair, held_items(name)))

\* the root of an account in use: every field names an object, the list
\* field f is found in the given state and the other three lists read
AccountHolding(f, state) ==
    LET field(name) == held_field(name, IF name = f THEN state ELSE "readable")
    IN  sign([identity |-> Identity,
              friends |-> field("friends"), blocks |-> field("blocks"),
              block_by |-> field("block_by"), request |-> field("request"),
              conversations |-> Some("conversations"),
              communities |-> Some("communities"),
              keystore |-> Some("keystore"),
              file_index |-> Some("file_index"),
              signature |-> None], Keypair)

\* RootDocumentMap::new on the repository of such an account
Holding ==
    \E f \in ListFields, state \in ListStates :
       /\ data_store = Some(to_string(AccountHolding(f, state)))
       /\ cid = parse(data_store)
       /\ pinned = {AccountHolding(f, state)}
       /\ roots = {AccountHolding(f, state)}
       /\ blobs = {Unwrap(AccountHolding(f, state)[g]) :
                     g \in {h \in ListFields :
                              /\ IsSome(AccountHolding(f, state)[h])
                              /\ ~(h = f /\ state = "lost")}}
       /\ idents = {Identity}
       /\ metas = {}
       /\ rwlock = [writer |-> None, readers |-> {}]
       /\ tk = [t \in Tasks |-> NoTask]
       /\ done = NoneDone
       /\ nops = 0
       /\ nfaults = 0
       /\ lastcs = NoWrite
       /\ expect = [friends |-> {}, blocks |-> {}]
       /\ clean = TRUE

\* a further list edit or metadata call may begin
MayEdit == nops < MaxEdits

Writes == {"set", "add_friend", "block_key"}

\* a store operation succeeds, or fails while failures are left
MayFail(ok) == ok \/ nfaults < MaxFaults
Fault(ok) == nfaults' = IF ok THEN nfaults ELSE nfaults + 1

\* a call op(arg) and what it found when it took the lock
Call(op, arg) == [op |-> op, arg |-> arg, pre |-> Snapshot]

\* what the caller gets back: ret, with error err from step at; val for a get;
\* ptr tells how the write of the pointer went; again is set by a get
Result(call, ret, err, at, val, ptr) ==
    [op |-> call.op, arg |-> call.arg, ret |-> ret, err |-> err, at |-> at,
     val |-> val, ptr |-> ptr, pre |-> call.pre, again |-> None]

\* what the get before gave, when the call that returned last is a get that
\* gave a document: no call has returned between the two
Before == IF done.op = "get" /\ done.ret = "Ok" THEN done.val ELSE None

\* a task may begin a call
MayBegin(t) ==
    /\ tk[t].pc = "idle"
    /\ nops < MaxOps
    /\ nops' = nops + 1

\* the keys a successful add_friend / block_key has committed
Committed(call, ret) ==
    IF ret = "Ok" /\ call.op \in {"add_friend", "block_key"}
    THEN [expect EXCEPT ![field_of(call.op)] = @ \cup {Unwrap(call.arg)}]
    ELSE expect

\* the write call of task t returns: its guard is dropped, the lock released
Return(t, call, ret, err, at, ptr) ==
    /\ tk' = [tk EXCEPT ![t] = NoTask]
    /\ done' = Result(call, ret, err, at, None, ptr)
    /\ rwlock' = [rwlock EXCEPT !.writer = None]
    /\ lastcs' = [op |-> call.op, arg |-> call.arg, ret |-> ret]
    /\ clean' = (clean /\ ret = "Ok")
    /\ expect' = Committed(call, ret)

\* the write call of task t holds the lock and waits at pc
Goto(t, pc) ==
    /\ tk' = [tk EXCEPT ![t].pc = pc]
    /\ rwlock' = [rwlock EXCEPT !.writer = Some(t)]
    /\ UNCHANGED <<done, lastcs, clean, expect>>

\* how document.sign(keypair)? and document.verify(&ipfs).await? may end
SignOutcomes == {"Ok", "Sign", "Verify"}

\* _set_root_document up to its put_dag (root.rs:349-354): the document is
\* signed and verified, and the call waits for the store
SignAndVerify(t, call, document, out) ==
    LET signed == sign(document, Keypair)
    IN  IF out = "Sign" THEN Return(t, call, "Err", "Sign", "sign", "none")
        ELSE IF out = "Verify" \/ ~verify(signed)
        THEN Return(t, call, "Err", "Verify", "verify", "none")
        ELSE /\ tk' = [tk EXCEPT ![t] =
                         [NoTask EXCEPT !.pc = "put_dag", !.op = call.op,
                             !.arg = call.arg, !.document = Some(signed),
                             !.pre = call.pre]]
             /\ rwlock' = [rwlock EXCEPT !.writer = Some(t)]
             /\ UNCHANGED <<done, lastcs, clean, expect>>

\* ---- RootDocumentMap::get (root.rs:64-67)
BeginGet(t) ==
    /\ MayBegin(t)
    /\ may_read(rwlock)
    /\ rwlock' = [rwlock EXCEPT !.readers = @ \cup {t}]
    /\ tk' = [tk EXCEPT ![t] = [NoTask EXCEPT !.pc = "get_root", !.op = "get",
                                              !.pre = Snapshot]]
    /\ UNCHANGED <<cid, data_store, pinned, roots, blobs, idents, metas, done, nfaults,
                   lastcs, expect, clean>>
    /\ UNCHANGED <<refvars, convvars>>

GetDone(t) ==
    /\ tk[t].pc = "get_root"
    /\ LET r == get_root_document(cid, roots)
       IN  done' = [Result(tk[t], IF r.ok THEN "Ok" ELSE "Err", r.err,
                           "get_root", r.val, "none") EXCEPT !.again = Before]
    /\ tk' = [tk EXCEPT ![t] = NoTask]
    /\ rwlock' = [rwlock EXCEPT !.readers = @ \ {t}]
    /\ UNCHANGED <<cid, data_store, pinned, roots, blobs, idents, metas, nops, nfaults,
                   lastcs, expect, clean>>
    /\ UNCHANGED <<refvars, convvars>>

\* ---- RootDocumentMap::set (root.rs:69-72)
BeginSet(t) ==
    /\ MayBegin(t)
    /\ may_write(rwlock)
    /\ \E document \in SetDocuments, out \in SignOutcomes :
         /\ MayFail(out = "Ok")
         /\ Fault(out = "Ok")
         /\ SignAndVerify(t, Call("set", Some(document)), document, out)
    /\ UNCHANGED <<cid, data_store, pinned, roots, blobs, idents, metas>>
    /\ UNCHANGED <<refvars, convvars>>

\* ---- RootDocumentMap::add_friend, add_block (root.rs:84-87, 94-97), up to
\* the put_dag of the list (root.rs:599-623, 731-755): the root, the list
\* behind its field, the key added
BeginAdd(t) ==
    /\ MayBegin(t)
    /\ may_write(rwlock)
    /\ \E op \in {"add_friend", "block_key"}, did \in DIDs :
         LET call == Call(op, Some(did))
             r == get_root_document(cid, roots)
         IN  IF ~r.ok
             THEN Return(t, call, "Err", r.err, "get_root", "none")
             ELSE LET l == read_list(Unwrap(r.val)[field_of(op)], blobs)
                  IN  IF insert_item(l, did) = l
                      THEN Return(t, call, "Err", exists_error(op), "insert_item", "none")
                      ELSE /\ tk' = [tk EXCEPT ![t] =
                                       [NoTask EXCEPT !.pc = "put_list", !.op = op,
                                          !.arg = Some(did), !.document = r.val,
                                          !.blob = Some(ecdh_encrypt(Keypair,
                                                          insert_item(l, did))),
                                          !.pre = Snapshot]]
                           /\ rwlock' = [rwlock EXCEPT !.writer = Some(t)]
                           /\ UNCHANGED <<done, lastcs, clean, expect>>
    /\ UNCHANGED <<cid, data_store, pinned, roots, blobs, idents, metas, nfaults>>
    /\ UNCHANGED <<refvars, convvars>>

\* ---- remove_friend, unblock_key, add_block_by, remove_block_by,
\* add_request, remove_request (root.rs:511-576, 663-696, 765-798, 820-887), up
\* to the put_dag of the list, or up to the put_dag of the root when the list
\* is left empty and the field is cleared
EditOps == (AddOps \cup RemoveOps) \ {"add_friend", "block_key"}

BeginEdit(t) ==
    /\ MayEdit
    /\ MayBegin(t)
    /\ may_write(rwlock)
    /\ \E op \in EditOps, item \in DIDs, out \in SignOutcomes :
         LET call == Call(op, Some(item))
             r == get_root_document(cid, roots)
             l == read_list(Unwrap(r.val)[field_of(op)], blobs)
         IN  IF ~r.ok
             THEN /\ out = "Ok"
                  /\ nfaults' = nfaults
                  /\ Return(t, call, "Err", r.err, "get_root", "none")
             ELSE IF edited(op, l, item) = l
             THEN /\ out = "Ok"
                  /\ nfaults' = nfaults
                  /\ Return(t, call, "Err", unchanged_error(op), "edit", "none")
             ELSE IF IsSome(field_for(edited(op, l, item)))
             THEN /\ out = "Ok"
                  /\ nfaults' = nfaults
                  /\ tk' = [tk EXCEPT ![t] =
                              [NoTask EXCEPT !.pc = "put_list", !.op = op,
                                 !.arg = Some(item), !.document = r.val,
                                 !.blob = field_for(edited(op, l, item)),
                                 !.pre = Snapshot]]
                  /\ rwlock' = [rwlock EXCEPT !.writer = Some(t)]
                  /\ UNCHANGED <<done, lastcs, clean, expect>>
             ELSE /\ MayFail(out = "Ok")
                  /\ Fault(out = "Ok")
                  /\ SignAndVerify(t, call,
                        [Unwrap(r.val) EXCEPT ![field_of(op)] = None], out)
    /\ UNCHANGED <<cid, data_store, pinned, roots, blobs, idents, metas>>
    /\ UNCHANGED <<refvars, convvars>>

\* ---- add_metadata_key, remove_metadata_key (root.rs:234-246, 389-478), up
\* to the put_dag of the map
MetaCalls ==
    {[op |-> "add_metadata_key", key |-> key, val |-> val] :
        key \in MetaKeys, val \in MetaVals}
      \cup {[op |-> "remove_metadata_key", key |-> key, val |-> <<>>] :
               key \in MetaKeys}

BeginMeta(t) ==
    /\ MayEdit
    /\ MayBegin(t)
    /\ may_write(rwlock)
    /\ \E c \in MetaCalls :
         LET call == Call(c.op, Some([key |-> c.key, val |-> c.val]))
             root == get_root_document(cid, roots)
             document == identity(cid, roots, idents)
             map == arb_data_map(Unwrap(document.val).arb_data, metas)
             Fail(err, at) == Return(t, call, "Err", err, at, "none")
             Put(map1) ==
                 /\ tk' = [tk EXCEPT ![t] =
                             [NoTask EXCEPT !.pc = "put_meta", !.op = c.op,
                                !.arg = call.arg, !.document = root.val,
                                !.blob = Some(map1), !.pre = Snapshot]]
                 /\ rwlock' = [rwlock EXCEPT !.writer = Some(t)]
                 /\ UNCHANGED <<done, lastcs, clean, expect>>
         IN  IF ~root.ok THEN Fail(root.err, "get_root")
             ELSE IF ~document.ok THEN Fail(document.err, "identity")
             ELSE IF c.op = "add_metadata_key"
             THEN IF over(c.key, MAX_METADATA_KEY_LENGTH)
                  THEN Fail("InvalidLength", "key_length")
                  ELSE IF over(c.val, MAX_METADATA_VALUE_LENGTH)
                  THEN Fail("InvalidLength", "value_length")
                  ELSE IF full_for(map, c.key) THEN Fail("Other", "entries")
                  ELSE Put(map_insert(map, c.key, c.val))
             ELSE IF ~has_key(map, c.key) THEN Fail("Other", "shift_remove")
                  ELSE Put(shift_remove(map, c.key))
    /\ UNCHANGED <<cid, data_store, pinned, roots, blobs, idents, metas, nfaults>>
    /\ UNCHANGED <<refvars, convvars>>

\* put_dag(map), the identity given the map's CID and signed, and its put_dag
\* awaited
PutMetaDone(t) ==
    /\ tk[t].pc = "put_meta"
    /\ \E out \in {"Put", "Ok", "Sign"} :
         /\ MayFail(out = "Ok")
         /\ Fault(out = "Ok")
         /\ metas' = IF out = "Put" THEN metas ELSE metas \cup {Unwrap(tk[t].blob)}
         /\ IF out = "Put" THEN Return(t, tk[t], "Err", "Any", "put_meta", "none")
            ELSE IF out = "Sign"
            THEN Return(t, tk[t], "Err", "Sign", "sign_identity", "none")
            ELSE /\ tk' = [tk EXCEPT ![t].pc = "put_identity",
                              ![t].blob = Some(sign_identity(
                                  [Unwrap(tk[t].document).identity
                                      EXCEPT !.arb_data = tk[t].blob], Keypair))]
                 /\ UNCHANGED <<rwlock, done, lastcs, clean, expect>>
    /\ UNCHANGED <<cid, data_store, pinned, roots, blobs, idents, nops>>
    /\ UNCHANGED <<refvars, convvars>>

\* put_dag(identity), the root given the identity's CID, and on into
\* set_root_document
PutIdentityDone(t) ==
    /\ tk[t].pc = "put_identity"
    /\ \E out \in {"Put"} \cup SignOutcomes :
         /\ MayFail(out = "Ok")
         /\ Fault(out = "Ok")
         /\ IF out = "Put"
            THEN /\ idents' = idents
                 /\ Return(t, tk[t], "Err", "Any", "put_identity", "none")
            ELSE /\ idents' = idents \cup {Unwrap(tk[t].blob)}
                 /\ SignAndVerify(t, tk[t],
                       [Unwrap(tk[t].document) EXCEPT !.identity = Unwrap(tk[t].blob)],
                       out)
    /\ UNCHANGED <<cid, data_store, pinned, roots, blobs, metas, nops>>
    /\ UNCHANGED <<refvars, convvars>>

\* ---- set_status_indicator / set_identity_status (root.rs:79-82, 480-488)
\* IdentityStatus (multipass/identity.rs:19-28)
Statuses == {"online", "away", "busy", "offline"}

\* an identity left with the status it had
status_kept(document, status) == document

\* identity.metadata.status = Some(status) (root.rs:483)
with_status(document, status) == [document EXCEPT !.status = Some(status)]

\* the root, the verified identity, its status set, the identity signed
\* (root.rs:481-484), up to the put_dag of the identity
BeginStatus(t) ==
    /\ MayEdit
    /\ MayBegin(t)
    /\ may_write(rwlock)
    /\ \E status \in Statuses, out \in {"Ok", "Sign"} :
         LET call == Call("set_identity_status", Some(status))
             root == get_root_document(cid, roots)
             document == identity(cid, roots, idents)
         IN  IF ~root.ok
             THEN /\ out = "Ok"
                  /\ nfaults' = nfaults
                  /\ Return(t, call, "Err", root.err, "get_root", "none")
             ELSE IF ~document.ok
             THEN /\ out = "Ok"
                  /\ nfaults' = nfaults
                  /\ Return(t, call, "Err", document.err, "identity", "none")
             ELSE /\ MayFail(out = "Ok")
                  /\ Fault(out = "Ok")
                  /\ IF out = "Sign"
                     THEN Return(t, call, "Err", "Sign", "sign_identity", "none")
                     ELSE /\ tk' = [tk EXCEPT ![t] =
                                      [NoTask EXCEPT !.pc = "put_identity",
                                         !.op = call.op, !.arg = call.arg,
                                         !.document = root.val,
                                         !.blob = Some(sign_identity(
                                             with_status(Unwrap(document.val), status),
                                             Keypair)),
                                         !.pre = Snapshot]]
                          /\ rwlock' = [rwlock EXCEPT !.writer = Some(t)]
                          /\ UNCHANGED <<done, lastcs, clean, expect>>
    /\ UNCHANGED <<cid, data_store, pinned, roots, blobs, idents, metas>>
    /\ UNCHANGED <<refvars, convvars>>

\* put_dag of the encrypted list, the root's field set to its CID, and on
\* into set_root_document
PutListDone(t) ==
    /\ tk[t].pc = "put_list"
    /\ \E out \in {"Put"} \cup SignOutcomes :
         /\ MayFail(out = "Ok")
         /\ Fault(out = "Ok")
         /\ IF out = "Put"
            THEN /\ blobs' = blobs
                 /\ Return(t, tk[t], "Err", "Any", "put_list", "none")
            ELSE /\ blobs' = blobs \cup {Unwrap(tk[t].blob)}
                 /\ SignAndVerify(t, tk[t],
                       [Unwrap(tk[t].document) EXCEPT ![field_of(tk[t].op)] = tk[t].blob],
                       out)
    /\ UNCHANGED <<cid, data_store, pinned, roots, idents, metas, nops>>
    /\ UNCHANGED <<refvars, convvars>>

\* ---- the rest of _set_root_document (root.rs:354-387), one step for each
\* store operation it awaits
PutDagDone(t) ==
    /\ tk[t].pc = "put_dag"
    /\ \E ok \in BOOLEAN :
         /\ MayFail(ok)
         /\ Fault(ok)
         /\ IF ok
            THEN /\ roots' = roots \cup {Unwrap(tk[t].document)}
                 /\ Goto(t, "insert_pin")
            ELSE /\ roots' = roots
                 /\ Return(t, tk[t], "Err", "Any", "put_dag", "none")
    /\ UNCHANGED <<cid, data_store, pinned, blobs, idents, metas, nops>>
    /\ UNCHANGED <<refvars, convvars>>

\* insert_pin(root_cid).recursive(), then self.cid.replace(root_cid)
InsertPinDone(t) ==
    /\ tk[t].pc = "insert_pin"
    /\ \E ok \in BOOLEAN :
         /\ MayFail(ok)
         /\ Fault(ok)
         /\ IF ok
            THEN LET root_cid == Unwrap(tk[t].document)
                 IN  /\ pinned' = pinned \cup {root_cid}
                     /\ cid' = after_pin(TRUE, cid, root_cid)
                     /\ tk' = [tk EXCEPT ![t].pc = "ds_put", ![t].old_cid = cid]
                     /\ expect' =
                          IF tk[t].op = "set"
                          THEN [friends |-> elems(read_list(root_cid.friends, blobs)),
                                blocks |-> elems(read_list(root_cid.blocks, blobs))]
                          ELSE expect
                     /\ UNCHANGED <<rwlock, done, lastcs, clean>>
            ELSE /\ pinned' = pinned
                 /\ cid' = after_pin(FALSE, cid, Unwrap(tk[t].document))
                 /\ Return(t, tk[t], "Err", "Any", "insert_pin", "none")
    /\ UNCHANGED <<data_store, roots, blobs, idents, metas, nops>>
    /\ UNCHANGED <<refvars, convvars>>

\* the old root is one to unpin (root.rs:378-379)
differs(old_cid, root_cid) == IsSome(old_cid) /\ Unwrap(old_cid) /= root_cid

\* data_store().put(key, cid_str): a failure is logged, and the call goes on
\* to the old root, if there is one to unpin
DsPutDone(t) ==
    /\ tk[t].pc = "ds_put"
    /\ \E ok \in BOOLEAN :
         /\ MayFail(ok)
         /\ Fault(ok)
         /\ data_store' = IF ok THEN Some(to_string(Unwrap(tk[t].document)))
                          ELSE data_store
         /\ LET ptr == IF ok THEN "ok" ELSE "failed"
            IN  IF differs(tk[t].old_cid, Unwrap(tk[t].document))
                THEN /\ tk' = [tk EXCEPT ![t].pc = "unpin", ![t].ptr = ptr]
                     /\ UNCHANGED <<rwlock, done, lastcs, clean, expect>>
                ELSE Return(t, tk[t], "Ok", "", "ds_put", ptr)
    /\ UNCHANGED <<cid, pinned, roots, blobs, idents, metas, nops>>
    /\ UNCHANGED <<refvars, convvars>>

\* how is_pinned(old_cid) and remove_pin(old_cid) may end
UnpinOutcomes == {"Ok", "IsPinned", "RemovePin"}

\* is_pinned(old_cid).await.unwrap_or_default(), then
\* remove_pin(old_cid).recursive(): a failure of either is passed over, and
\* the call returns Ok
UnpinDone(t) ==
    /\ tk[t].pc = "unpin"
    /\ \E out \in UnpinOutcomes :
         /\ MayFail(out = "Ok")
         /\ Fault(out = "Ok")
         /\ out = "RemovePin" => Unwrap(tk[t].old_cid) \in pinned
         /\ pinned' = IF out = "Ok" THEN pinned \ {Unwrap(tk[t].old_cid)} ELSE pinned
         /\ Return(t, tk[t], "Ok", "", "unpin", tk[t].ptr)
    /\ UNCHANGED <<cid, data_store, roots, blobs, idents, metas, nops>>
    /\ UNCHANGED <<refvars, convvars>>

\* the caller drops the future of a call that is waiting: the guard is
\* dropped with it, what the call has done so far stays
Cancel(t) ==
    /\ tk[t].pc /= "idle"
    /\ nfaults < MaxFaults
    /\ nfaults' = nfaults + 1
    /\ IF tk[t].op \in Writes
       THEN Return(t, tk[t], "Cancelled", "", tk[t].pc, tk[t].ptr)
       ELSE /\ tk' = [tk EXCEPT ![t] = NoTask]
            /\ done' = Result(tk[t], "Cancelled", "", tk[t].pc, None, "none")
            /\ rwlock' = [rwlock EXCEPT !.readers = @ \ {t}]
            /\ UNCHANGED <<lastcs, clean, expect>>
    /\ UNCHANGED <<cid, data_store, pinned, roots, blobs, idents, metas, nops>>
    /\ UNCHANGED <<refvars, convvars>>

\* ---- RootDocumentMap::new (root.rs:37-62) and migrate (root.rs:264-314)
\* the request lists a repository may hold when the account is opened: legacy
\* lists, a list of the current schema, one encrypted under another key, and
\* one an earlier migrate has stored
LegacyLists ==
    {dag_list(<<OldRequest(dir, "a")>>) : dir \in Directions}
       \cup {dag_list(<<OldRequest("In", "a"), OldRequest("Out", "b")>>)}
CurrentLists == {ecdh_encrypt(Keypair, <<Request("In", "a", "then")>>)}
ForeignLists == {ecdh_encrypt("other", <<Request("Out", "b", "then")>>)}
MigratedLists == {dag_list(translated(<<OldRequest("Out", "a")>>))}
RequestLists ==
    LegacyLists \cup CurrentLists \cup ForeignLists \cup MigratedLists

\* a root with the request field, signed by key
AccountOf(field, key) ==
    sign([RootDocument(Identity, None, None) EXCEPT !.request = field], key)

\* the repository RootDocumentMap::new finds: a pointer or none, the root it
\* names stored or not, signed by the account or not, its request list
\* stored or not; cid is what new parses from the pointer (root.rs:40-47),
\* and migrate is about to run
Found ==
    \E field \in {None} \cup {Some(b) : b \in RequestLists},
       key \in {Keypair, "other"},
       has_pointer, has_root, has_list \in BOOLEAN :
       /\ data_store = IF has_pointer THEN Some(to_string(AccountOf(field, key)))
                       ELSE None
       /\ cid = parse(data_store)
       /\ roots = IF has_root THEN {AccountOf(field, key)} ELSE {}
       /\ pinned = IF has_pointer THEN roots ELSE {}
       /\ blobs = IF has_list /\ IsSome(field) THEN {Unwrap(field)} ELSE {}
       /\ idents = {Identity}
       /\ metas = {}
       /\ rwlock = [writer |-> None, readers |-> {}]
       /\ tk = [t \in Tasks |->
                  IF t = "t1" THEN [NoTask EXCEPT !.pc = "new"] ELSE NoTask]
       /\ done = NoneDone
       /\ nops = 0
       /\ nfaults = 0
       /\ lastcs = NoWrite
       /\ expect = [friends |-> {}, blocks |-> {}]
       /\ clean = TRUE

\* migrate up to its put_dag: it returns when the root does not resolve or
\* verify, when the root has no request list, and when the list does not
\* decode as a non-empty legacy list; else it waits for the store with the
\* translated list
Migrate(t) ==
    /\ tk[t].pc = "new"
    /\ LET call == Call("migrate", None)
           root == get_root_document(cid, roots)
       IN  IF ~root.ok THEN Return(t, call, "Err", root.err, "get_root", "none")
           ELSE IF IsNone(Unwrap(root.val).request)
           THEN Return(t, call, "Ok", "", "request", "none")
           ELSE IF old_requests(Unwrap(root.val).request, blobs) = <<>>
           THEN Return(t, call, "Ok", "", "is_empty", "none")
           ELSE /\ tk' = [tk EXCEPT ![t] =
                            [NoTask EXCEPT !.pc = "put_list", !.op = "migrate",
                               !.document = root.val,
                               !.blob = Some(dag_list(translated(
                                   old_requests(Unwrap(root.val).request, blobs)))),
                               !.pre = Snapshot]]
                /\ rwlock' = [rwlock EXCEPT !.writer = Some(t)]
                /\ UNCHANGED <<done, lastcs, clean, expect>>
    /\ UNCHANGED <<cid, data_store, pinned, roots, blobs, idents, metas, nops, nfaults>>
    /\ UNCHANGED <<refvars, convvars>>

\* ---- get_requests, get_friends, get_blocks, get_block_by (root.rs:129-147)
ReadList(t) ==
    /\ MayEdit
    /\ MayBegin(t)
    /\ may_read(rwlock)
    /\ \E name \in ListFields :
         LET r == get_list(cid, name, roots, blobs)
         IN  done' = Result(Call(name, None), IF r.ok THEN "Ok" ELSE "Err",
                            r.err, "get_list", r.val, "none")
    /\ UNCHANGED <<cid, data_store, pinned, roots, blobs, idents, metas, rwlock, tk,
                   nfaults, lastcs, expect, clean>>
    /\ UNCHANGED <<refvars, convvars>>

\* ---- import_root_cid (root.rs:158-161) and set_root_cid (root.rs:1139-1149)
\* what the peers provide: a root of this account with a request list, a root
\* another key has signed, and a root whose request list nobody provides
Provided ==
    [roots |-> {AccountOf(Some(b), Keypair) : b \in CurrentLists}
                 \cup {AccountOf(None, "other")}
                 \cup {AccountOf(Some(b), Keypair) : b \in ForeignLists},
     blobs |-> CurrentLists,
     idents |-> {Identity}]

\* the CIDs a caller imports: those roots and one nobody provides
ImportCids == Provided.roots \cup {AccountOf(None, "nobody")}

\* the lists a root names
lists_of(document) ==
    {Unwrap(document[name]) : name \in {f \in ListFields : IsSome(document[f])}}

\* root_document.resolve2(&ipfs): every reference of the root resolves in the
\* local store or from the peers
resolve2(document, bs, ids) ==
    /\ document.identity \in ids \cup Provided.idents
    /\ lists_of(document) \subseteq bs \cup Provided.blobs

\* set_root_cid up to _set_root_document's put_dag: the root and what it
\* names are fetched, which leaves them in the local store, and the root is
\* signed with the account's key
BeginImport(t) ==
    /\ MayEdit
    /\ MayBegin(t)
    /\ may_write(rwlock)
    /\ \E c \in ImportCids, out \in SignOutcomes :
         LET call == Call("import", Some(c))
         IN  IF c \notin roots \cup Provided.roots
             THEN /\ out = "Ok"
                  /\ UNCHANGED <<roots, blobs, idents, nfaults>>
                  /\ Return(t, call, "Err", "Any", "get_dag", "none")
             ELSE IF ~resolve2(c, blobs, idents)
             THEN /\ out = "Ok"
                  /\ roots' = roots \cup {c}
                  /\ UNCHANGED <<blobs, idents, nfaults>>
                  /\ Return(t, call, "Err", "Any", "resolve2", "none")
             ELSE /\ MayFail(out = "Ok")
                  /\ Fault(out = "Ok")
                  /\ roots' = roots \cup {c}
                  /\ blobs' = blobs \cup lists_of(c)
                  /\ idents' = idents \cup {c.identity}
                  /\ SignAndVerify(t, call, payload(c), out)
    /\ UNCHANGED <<cid, data_store, pinned, metas>>
    /\ UNCHANGED <<refvars, convvars>>

\* an account is opened, read and restored, under one caller
OpenStep(t) ==
    \/ Migrate(t) \/ ReadList(t) \/ BeginImport(t) \/ PutListDone(t)
    \/ PutDagDone(t) \/ InsertPinDone(t) \/ DsPutDone(t) \/ UnpinDone(t)

NextOpen == \E t \in {"t1"} : OpenStep(t)

\* ---- the conversations and communities of the root (root.rs:928-1135)
\* documents as their creators have signed them: live and deleted
live_doc(id) == sign_conversation(ConversationDocument(id, FALSE), "creator")
gone_doc(id) == sign_conversation(ConversationDocument(id, TRUE), "creator")

\* a deleted document whose tombstone was cleared after it was signed: it
\* decodes and does not verify
restored_doc(id) == [gone_doc(id) EXCEPT !.deleted = FALSE]

\* the maps a repository may hold when the account is opened: the account's
\* own, and maps that came with a root restored from elsewhere
FoundMaps ==
    {conv_insert(conv_insert(EmptyMap, "c1", live_doc("c1")), "c2", restored_doc("c2")),
     conv_insert(conv_insert(EmptyMap, "c1", gone_doc("c1")), "c2", live_doc("c2"))}

documents_of(map) == {map[k] : k \in DOMAIN map}

\* a root with the field kind naming the map
AccountOfMap(kind, field) ==
    sign([RootDocument(Identity, None, None) EXCEPT ![kind] = field], Keypair)

\* the repository of an existing account: one of its two maps is absent, not
\* in the local store, or stored with all its documents or all but the
\* live one of c1
Kept ==
    \E kind \in Kinds, field \in {None} \cup {Some(map) : map \in FoundMaps} :
    \E has_map \in BOOLEAN :
    \E lost \in SUBSET (documents_of(conv_map(field, {Unwrap(field)}))
                           \cap {live_doc("c1")}) :
       /\ IsNone(field) => has_map
       /\ ~has_map => lost = {}
       /\ data_store = Some(to_string(AccountOfMap(kind, field)))
       /\ cid = parse(data_store)
       /\ pinned = {AccountOfMap(kind, field)}
       /\ roots = {AccountOfMap(kind, field)}
       /\ blobs = {}
       /\ idents = {Identity}
       /\ metas = {}
       /\ cmaps = IF has_map /\ IsSome(field) THEN {Unwrap(field)} ELSE {}
       /\ convs = IF has_map
                  THEN documents_of(conv_map(field, {Unwrap(field)})) \ lost
                  ELSE {}
       /\ rwlock = [writer |-> None, readers |-> {}]
       /\ tk = [t \in Tasks |-> NoTask]
       /\ done = NoneDone
       /\ nops = 0
       /\ nfaults = 0
       /\ lastcs = NoWrite
       /\ expect = [friends |-> {}, blocks |-> {}]
       /\ clean = TRUE

\* the documents a caller sets: a tombstone, a live document, and one that
\* does not verify
ConvDocuments == {gone_doc("c1"), live_doc("c2"), restored_doc("c1")}

\* set_conversation_document / set_community_document (root.rs:954-985,
\* 1093-1124) up to the sign of the new root
BeginSetConversation(t) ==
    /\ MayEdit
    /\ MayBegin(t)
    /\ may_write(rwlock)
    /\ \E kind \in Kinds, document \in ConvDocuments,
          out \in {"PutDocument", "PutMap"} \cup SignOutcomes :
         LET call == Call("set_conversation",
                          Some([kind |-> kind, document |-> document]))
             root == get_root_document(cid, roots)
             entries == conv_insert(conv_map(Unwrap(root.val)[kind], cmaps),
                                document.id, document)
         IN  IF ~verify_conversation(document)
             THEN /\ out = "Ok"
                  /\ UNCHANGED <<convs, cmaps, nfaults>>
                  /\ Return(t, call, "Err", "Verify", "verify_document", "none")
             ELSE IF ~root.ok
             THEN /\ out = "Ok"
                  /\ UNCHANGED <<convs, cmaps, nfaults>>
                  /\ Return(t, call, "Err", root.err, "get_root", "none")
             ELSE /\ MayFail(out = "Ok")
                  /\ Fault(out = "Ok")
                  /\ convs' = IF out = "PutDocument" THEN convs
                              ELSE convs \cup {document}
                  /\ cmaps' = IF out \in {"PutDocument", "PutMap"} THEN cmaps
                              ELSE cmaps \cup {entries}
                  /\ IF out = "PutDocument"
                     THEN Return(t, call, "Err", "Any", "put_document", "none")
                     ELSE IF out = "PutMap"
                     THEN Return(t, call, "Err", "Any", "put_map", "none")
                     ELSE SignAndVerify(t, call,
                             [Unwrap(root.val) EXCEPT ![kind] = Some(entries)], out)
    /\ UNCHANGED <<cid, data_store, pinned, roots, blobs, idents, metas>>
    /\ UNCHANGED refvars

\* get_conversation_document / get_community_document (root.rs:188-204)
GetConversation(t) ==
    /\ MayEdit
    /\ MayBegin(t)
    /\ may_read(rwlock)
    /\ \E kind \in Kinds, id \in ConvIds :
         LET r == get_conversation_document(cid, kind, id, roots, cmaps, convs)
         IN  done' = Result(Call("get_conversation", Some([kind |-> kind, id |-> id])),
                            IF r.ok THEN "Ok" ELSE "Err", r.err,
                            "get_conversation", r.val, "none")
    /\ UNCHANGED <<cid, data_store, pinned, roots, blobs, idents, metas, rwlock, tk,
                   nfaults, lastcs, expect, clean>>
    /\ UNCHANGED <<refvars, convvars>>

\* list_conversation_document / list_community_document (root.rs:179-186),
\* the stream read to its end
ListConversations(t) ==
    /\ MayEdit
    /\ MayBegin(t)
    /\ may_read(rwlock)
    /\ \E kind \in Kinds :
         done' = Result(Call("list_conversation", Some([kind |-> kind])),
                        "Ok", "", "list_conversation",
                        Some(list_conversation_stream(cid, kind, roots, cmaps, convs)),
                        "none")
    /\ UNCHANGED <<cid, data_store, pinned, roots, blobs, idents, metas, rwlock, tk,
                   nfaults, lastcs, expect, clean>>
    /\ UNCHANGED <<refvars, convvars>>

ConvStep(t) ==
    \/ BeginSetConversation(t) \/ GetConversation(t) \/ ListConversations(t)
    \/ PutDagDone(t) \/ InsertPinDone(t) \/ DsPutDone(t) \/ UnpinDone(t)

NextConv == \E t \in {"t1"} : ConvStep(t)

RootStep(t) ==
    \/ BeginGet(t) \/ GetDone(t)
    \/ BeginSet(t) \/ BeginAdd(t) \/ PutListDone(t)
    \/ PutDagDone(t) \/ InsertPinDone(t) \/ DsPutDone(t) \/ UnpinDone(t)
    \/ Cancel(t)

NextRoot == \E t \in Tasks : RootStep(t)

\* the operations on the lists of the root, made one after another
EditStep(t) ==
    \/ (MayEdit /\ BeginAdd(t)) \/ BeginEdit(t) \/ PutListDone(t)
    \/ PutDagDone(t) \/ InsertPinDone(t) \/ DsPutDone(t) \/ UnpinDone(t)

NextEdit == \E t \in {"t1"} : EditStep(t)

\* the calls made on an account in use
MaxContactCalls == 1

\* a further call on the account in use may begin
MayContact == nops < MaxContactCalls

\* the lists and the status of an account in use under one caller
ContactStep(t) ==
    \/ (MayContact /\ BeginAdd(t)) \/ (MayContact /\ BeginEdit(t))
    \/ (MayContact /\ BeginStatus(t))
    \/ PutListDone(t) \/ PutIdentityDone(t)
    \/ PutDagDone(t) \/ InsertPinDone(t) \/ DsPutDone(t) \/ UnpinDone(t)

NextContact == \E t \in {"t1"} : ContactStep(t)

InitContact == NoConversation /\ NoDocuments /\ Holding

SpecContact == InitContact /\ [][NextContact]_vars

\* the operations on the metadata of the identity, made one after another
MetaStep(t) ==
    \/ BeginMeta(t) \/ PutMetaDone(t) \/ PutIdentityDone(t)
    \/ PutDagDone(t) \/ InsertPinDone(t) \/ DsPutDone(t) \/ UnpinDone(t)

NextMeta == \E t \in {"t1"} : MetaStep(t)

NextRef == Insert \/ Update \/ Remove \/ Shrink

Init == NoConversation /\ NoDocuments /\ InitRootVars

\* the MessageReferenceList of one conversation under one caller
InitRef == InitRefVars /\ NoDocuments /\ InitRootVars

SpecRef == InitRef /\ [][NextRef]_vars

\* the RootDocumentMap of one account shared by the tasks
SpecRoot == Init /\ [][NextRoot]_vars

\* the lists of an existing account under one caller
InitAccount == NoConversation /\ NoDocuments /\ OpenedAccount

SpecEdit == InitAccount /\ [][NextEdit]_vars

\* the metadata of an existing account's identity under one caller
InitMeta == NoConversation /\ NoDocuments /\ \E k \in 0..MAX_METADATA_ENTRIES : Opened(Metadata(k))

SpecMeta == InitMeta /\ [][NextMeta]_vars

\* the opening of an account from what the repository holds, and the calls
\* that read its lists and restore a root
InitOpen == NoConversation /\ NoDocuments /\ Found

SpecOpen == InitOpen /\ [][NextOpen]_vars

\* ... where a call that can take its next step takes it
SpecOpenFair == SpecOpen /\ WF_vars(NextOpen)

\* the conversations and communities of an existing account under one caller
InitConv == NoConversation /\ Kept

SpecConv == InitConv /\ [][NextConv]_vars

\* ---------------------------------------------------------------- claims
\* a task is inside the critical section of its call
InCS(t) == tk[t].pc /= "idle"

\* C1: a get() that follows a successful set(D), with no other write between,
\* returns a document equal to D in every field but the signature, and that
\* document verifies
C1_SetThenGet ==
    (done.op = "get" /\ done.ret /= "Cancelled"
        /\ lastcs.op = "set" /\ lastcs.ret = "Ok") =>
        /\ done.ret = "Ok"
        /\ payload(Unwrap(done.val)) = payload(Unwrap(lastcs.arg))
        /\ verify(Unwrap(done.val))

\* a get after the set of a document with friends that replaced another root
C1_Witness ==
    /\ done.op = "get"
    /\ done.ret = "Ok"
    /\ lastcs.op = "set"
    /\ lastcs.ret = "Ok"
    /\ IsSome(Unwrap(lastcs.arg).friends)
    /\ Cardinality(roots) >= 2

\* C2: the root the persistent pointer names is pinned, in every state
C2_PointerRootPinned ==
    IsSome(parse(data_store)) => Unwrap(parse(data_store)) \in pinned

\* C3: when every write call so far has returned Ok and none is under way,
\* the current root is the only pinned one of the roots they produced
C3_OnlyCurrentRootPinned ==
    (clean /\ IsNone(rwlock.writer)) =>
        \A r \in roots : (r \in pinned) <=> (cid = Some(r))

\* C4: a write that fails at signing, verification, put_dag or insert_pin
\* leaves the current root, the pointer and the pins as they were, and get()
\* still gives the previous root; a set that fails at signing or verification
\* has stored nothing
C4_FailedSetChangesNothing ==
    (done.op \in Writes /\ done.ret = "Err" /\ IsNone(rwlock.writer)
        /\ done.at \in {"sign", "verify", "put_dag", "insert_pin"}) =>
        /\ cid = done.pre.cid
        /\ data_store = done.pre.data_store
        /\ pinned = done.pre.pinned
        /\ get_root_document(cid, roots)
             = get_root_document(done.pre.cid, done.pre.roots)
        /\ (done.op = "set" /\ done.at \in {"sign", "verify"}) =>
              (roots = done.pre.roots /\ blobs = done.pre.blobs)

\* a set over an existing root that stored its document and failed to pin it
C4_Witness ==
    /\ done.op = "set"
    /\ done.ret = "Err"
    /\ done.at = "insert_pin"
    /\ IsNone(rwlock.writer)
    /\ IsSome(done.pre.cid)
    /\ roots /= done.pre.roots

\* C5: a call whose write of the pointer failed returns an error
C5_PointerFailureReported ==
    (done.op \in Writes /\ done.ptr = "failed" /\ done.ret /= "Cancelled") =>
        done.ret = "Err"

\* C6: while a write call is inside its critical section no other call is
\* inside its own
C6_WriteExcludesAll ==
    \A t1 \in Tasks, t2 \in Tasks :
       (t1 /= t2 /\ InCS(t1) /\ tk[t1].op \in Writes) => ~InCS(t2)

\* a write between its swap of the current root and its write of the
\* pointer, begun after a get had returned
C6_Witness ==
    \E t \in Tasks : tk[t].pc = "ds_put" /\ done.op = "get" /\ done.ret = "Ok"

\* two gets inside their critical sections at once
C6_ReadersTogether == \A t \in Tasks : tk[t].pc = "get_root"

\* C7: every key a successful add_friend / add_block has committed since the
\* last set is in the list of the current root, and a successful add leaves
\* the list its call found with the key appended
C7_NoLostUpdate ==
    /\ expect.friends \subseteq elems(friend_list(cid, roots, blobs))
    /\ expect.blocks \subseteq elems(block_list(cid, roots, blobs))
    /\ (done.op \in {"add_friend", "block_key"} /\ done.ret = "Ok"
          /\ IsNone(rwlock.writer)) =>
          field_list(cid, field_of(done.op), roots, blobs)
            = Append(field_list(done.pre.cid, field_of(done.op),
                                done.pre.roots, done.pre.blobs),
                     Unwrap(done.arg))

\* two add_friend calls and an add_block have all committed
C7_Witness ==
    /\ Cardinality(expect.friends) + Cardinality(expect.blocks) >= 2
    /\ done.op \in {"add_friend", "block_key"}
    /\ done.ret = "Ok"

\* C16: from the moment a get takes the lock until a later write takes it,
\* the current root, the pointer, the pins and the object store are as the
\* get found them; and a get that returns with no call returned since a get
\* that gave a document gives the same document
C16_GetChangesNothing ==
    /\ \A t \in Tasks : tk[t].pc = "get_root" => Snapshot = tk[t].pre
    /\ (done.op = "get" /\ IsNone(rwlock.writer)) => Snapshot = done.pre
    /\ (done.op = "get" /\ IsSome(done.again)) =>
          (done.ret = "Ok" /\ done.val = done.again)

\* a second get of the root a set committed, with no write since the first
\* get
C16_Witness ==
    /\ done.op = "get"
    /\ done.ret = "Ok"
    /\ IsSome(done.again)
    /\ lastcs.op = "set"
    /\ cid /= None

\* ---- MessageReferenceList
\* the value stored under id in the chain: None when id is no key of any
\* shard or is marked None
RECURSIVE stored(_, _)
stored(self, id) ==
    LET map == IF IsSome(self.messages) THEN Unwrap(self.messages) ELSE <<>>
    IN  IF \E k \in 1..Len(map) : map[k].id = id
        THEN map[CHOOSE k \in 1..Len(map) : map[k].id = id].ref
        ELSE IF IsSome(self.next) THEN stored(Unwrap(self.next), id) ELSE None

\* id is a key of some shard of the chain
is_key(self, id) ==
    \E n \in 1..Len(shards(self)) :
       \E k \in 1..Len(shards(self)[n]) : shards(self)[n][k].id = id

\* C8: an insert of a message whose id is already a key of some shard fails
\* with MessageFound and leaves messages and next as they were, and get(id)
\* returns the message stored before, not the one offered
C8_InsertExistingFails ==
    (last.op = "insert" /\ is_key(last.pre, last.id)) =>
        /\ ~last.ok
        /\ last.err = "MessageFound"
        /\ mrl = last.pre
        /\ (IsSome(stored(last.pre, last.id))
              /\ MessageDocument_verify(Unwrap(stored(last.pre, last.id)))) =>
               get(mrl, last.id, ipfs) = Got(TRUE, "", stored(last.pre, last.id))

\* a second insert of a live id of a later shard, with another content
C8_Witness ==
    /\ last.op = "insert"
    /\ ~last.ok
    /\ Len(shards(last.pre)) = 2
    /\ \E k \in 1..Len(shards(last.pre)[2]) : shards(last.pre)[2][k].id = last.id
    /\ IsSome(stored(last.pre, last.id))
    /\ MessageDocument_verify(Unwrap(stored(last.pre, last.id)))
    /\ stored(last.pre, last.id) /= last.arg

\* C9: no shard's map holds more than REFERENCE_LENGTH entries
C9_ShardAtMostReferenceLength ==
    \A n \in 1..Len(shards(mrl)) : Len(shards(mrl)[n]) <= REFERENCE_LENGTH

\* C10: a successful remove(id) makes contains(id) false and count() one less
C10_RemoveHidesAndCountsDown ==
    (last.op = "remove" /\ last.ok) =>
        /\ ~contains(mrl, last.id, ipfs)
        /\ count(mrl, ipfs) = count(last.pre, ipfs) - 1

\* a successful remove of an id held by the second shard
C10_Witness ==
    /\ last.op = "remove"
    /\ last.ok
    /\ Len(shards(last.pre)) = 2
    /\ \E k \in 1..Len(shards(last.pre)[2]) : shards(last.pre)[2][k].id = last.id

\* C11: an insert of an id that a remove has taken out before fails with
\* MessageFound, whatever calls came between; an insert of an id no insert
\* has stored before succeeds and makes count() one more
C11_RemovedIdStaysReserved ==
    last.op = "insert" =>
        /\ last.id \in last.hist.removed =>
              (~last.ok /\ last.err = "MessageFound" /\ mrl = last.pre)
        /\ last.id \notin last.hist.inserted =>
              (last.ok /\ count(mrl, ipfs) = count(last.pre, ipfs) + 1)

\* an insert of a removed id, after other ids were inserted too
C11_Witness ==
    /\ last.op = "insert"
    /\ last.id \in last.hist.removed
    /\ Cardinality(last.hist.inserted) >= 2
    /\ ~last.ok

\* an insert of a new id into a chain whose first shard is full
C11_NewIdWitness ==
    /\ last.op = "insert"
    /\ last.id \notin last.hist.inserted
    /\ last.hist.removed /= {}
    /\ last.ok
    /\ Len(shards(mrl)) = 2

\* the ids of the entries of a chain that are not marked None
live_ids(self) ==
    {shards(self)[n][k].id : <<n, k>> \in
        {p \in (1..Len(shards(self))) \X (1..(REFERENCE_LENGTH + 1)) :
            /\ p[2] <= Len(shards(self)[p[1]])
            /\ IsSome(shards(self)[p[1]][p[2]].ref)}}

\* the ids of a sequence of messages
ids_of(messages) == {messages[k].id : k \in 1..Len(messages)}

\* C12: shrink of a chain with N entries not marked None returns a chain
\* whose count() is N and whose list() yields the ids the list() of the old
\* chain yields
C12_ShrinkKeepsLiveMessages ==
    last.op = "shrink" =>
        /\ last.ok
        /\ count(Unwrap(last.out), ipfs) = Cardinality(live_ids(last.pre))
        /\ ids_of(list(Unwrap(last.out), ipfs)) = ids_of(list(last.pre, ipfs))
        /\ ids_of(list(Unwrap(last.out), ipfs)) = live_ids(last.pre)

\* shrink of a chain of two shards with two live entries and one marked None
C12_Witness ==
    /\ last.op = "shrink"
    /\ last.ok
    /\ Len(shards(last.pre)) >= 2
    /\ last.hist.removed /= {}
    /\ Cardinality(live_ids(last.pre)) >= 2

\* C17: with every object resolving, contains(id) is true exactly for the ids
\* that are keys with a value in some shard of the chain
C17_ContainsIffLive ==
    \A id \in MsgIds : contains(mrl, id, ipfs) <=> (id \in live_ids(mrl))

\* the store with the maps and lists in lost gone from it: they no longer
\* resolve
without(st, lost) ==
    [st EXCEPT !.maps = @ \ lost.maps, !.lists = @ \ lost.lists]

\* the lists of the chain after the first, each the value its holder's next
\* names
RECURSIVE nexts(_)
nexts(self) ==
    IF IsNone(self.next) THEN <<>>
    ELSE <<Unwrap(self.next)>> \o nexts(Unwrap(self.next))

\* the objects of the chain that a store may fail to resolve
Losses(self) ==
    [maps : SUBSET {shards(self)[n] : n \in 1..Len(shards(self))},
     lists : SUBSET {nexts(self)[n] : n \in 1..Len(nexts(self))}]

\* the shards of the chain whose maps resolve and whose lists can be loaded
resolving(self, st) ==
    {n \in 1..Len(shards(self)) :
        /\ shards(self)[n] \in st.maps
        /\ \A m \in 1..(n - 1) : nexts(self)[m] \in st.lists}

\* the shards the walk reaches: those with no shard up to them whose map or
\* list does not resolve
walked(self, st) ==
    {n \in 1..Len(shards(self)) : \A m \in 1..n : m \in resolving(self, st)}

\* the entries with a value in the shards of the set
live_of(self, of) ==
    {p \in (1..Len(shards(self))) \X (1..(REFERENCE_LENGTH + 1)) :
        /\ p[1] \in of
        /\ p[2] <= Len(shards(self)[p[1]])
        /\ IsSome(shards(self)[p[1]][p[2]].ref)}

\* C18 as stated: count() is the number of entries with a value over all the
\* shards of the chain, a shard whose map does not resolve counting for 0
C18_CountSumsResolvingShards ==
    \A lost \in Losses(mrl) :
       count(mrl, without(ipfs, lost))
          = Cardinality(live_of(mrl, resolving(mrl, without(ipfs, lost))))

\* C18: count() is the number of entries with a value over the shards of the
\* chain up to the first shard whose map or list does not resolve; that shard
\* and every shard after it count for 0
C18_CountSumsWalkedShards ==
    \A lost \in Losses(mrl) :
       count(mrl, without(ipfs, lost))
          = Cardinality(live_of(mrl, walked(mrl, without(ipfs, lost))))

\* a chain of two shards with entries in both and one marked None, on which
\* count() gives 0 when the map of the first shard does not resolve
C18_Witness ==
    /\ Len(shards(mrl)) = 2
    /\ hist.removed /= {}
    /\ count(mrl, ipfs) >= 2
    /\ live_of(mrl, {2}) /= {}
    /\ count(mrl, without(ipfs, [maps |-> {shards(mrl)[1]}, lists |-> {}])) = 0

\* what get gives for a stored message: the message when its own signature
\* verifies, the error of verify() when it does not
verified(message) ==
    IF MessageDocument_verify(Unwrap(message)) THEN Got(TRUE, "", message)
    ELSE Got(FALSE, "Verify", None)

\* C19: get(id) gives the message the last successful insert or update of id
\* stored, as long as no remove has taken id out; it gives MessageNotFound for
\* an id never inserted or removed since; and a message it returns verifies
C19_GetReturnsLatestLive ==
    /\ \A id \in MsgIds :
          /\ get(mrl, id, ipfs).ok =>
                MessageDocument_verify(Unwrap(get(mrl, id, ipfs).val))
          /\ (id \notin hist.inserted \/ id \in hist.removed) =>
                get(mrl, id, ipfs) = Got(FALSE, "MessageNotFound", None)
          /\ (id \in hist.inserted \ hist.removed) =>
                (id \in live_ids(mrl) /\ get(mrl, id, ipfs) = verified(stored(mrl, id)))
    /\ (last.op \in {"insert", "update"} /\ last.ok) =>
          get(mrl, last.id, ipfs) = verified(last.arg)
    /\ \A id \in MsgIds :
          (id /= last.id \/ ~last.ok) =>
              get(mrl, id, ipfs) = get(last.pre, id, ipfs)

\* get of an id of the second shard after an update gave it another content
C19_Witness ==
    /\ last.op = "update"
    /\ last.ok
    /\ live_of(mrl, {2}) /= {}
    /\ last.id \notin map_keys(shards(mrl)[1])
    /\ get(last.pre, last.id, ipfs).ok
    /\ get(mrl, last.id, ipfs).ok
    /\ get(mrl, last.id, ipfs).val = last.arg
    /\ get(last.pre, last.id, ipfs).val /= last.arg

\* the keys of every shard of a chain, shard by shard and in map order
shard_keys(self) ==
    [n \in 1..Len(shards(self)) |->
        [k \in 1..Len(shards(self)[n]) |-> shards(self)[n][k].id]]

C20_FailureWitness ==
    /\ last.op = "update"
    /\ ~last.ok
    /\ last.id \in hist.removed
    /\ live_ids(mrl) /= {}

\* ---- the lists of the root

\* C13: a stored root never names the blob of an empty list; a successful
\* add or remove leaves the list its call found with the key added or taken
\* out, and when that list is empty the field of the committed root is None
\* and the accessor gives the empty list
C13_EmptyListClearsField ==
    /\ \A r \in roots, f \in ListFields :
          IsSome(r[f]) => Unwrap(r[f]).json /= <<>>
    /\ (done.op \in AddOps \cup RemoveOps /\ done.ret = "Ok"
          /\ IsNone(rwlock.writer)) =>
          LET f == field_of(done.op)
              before == field_list(done.pre.cid, f, done.pre.roots, done.pre.blobs)
              after == field_list(cid, f, roots, blobs)
          IN  /\ after = edited(done.op, before, Unwrap(done.arg))
              /\ (after = <<>>) <=> IsNone(Unwrap(cid)[f])

\* remove_request(k) after add_request(k) on an account with no requests
C13_Witness ==
    /\ done.op = "remove_request"
    /\ done.ret = "Ok"
    /\ IsNone(rwlock.writer)
    /\ field_list(done.pre.cid, "request", done.pre.roots, done.pre.blobs) /= <<>>
    /\ IsNone(Unwrap(cid).request)
    /\ field_list(cid, "request", roots, blobs) = <<>>
    /\ Account.request = None

\* ---- the metadata of the identity
\* the metadata map the call that returned last found
metadata_before ==
    metadata(done.pre.cid, done.pre.roots, done.pre.idents, done.pre.metas)

\* the call that returned last left the root and the object store as it
\* found them
nothing_written ==
    /\ cid = done.pre.cid
    /\ data_store = done.pre.data_store
    /\ pinned = done.pre.pinned
    /\ roots = done.pre.roots
    /\ idents = done.pre.idents
    /\ metas = done.pre.metas
    /\ metadata(cid, roots, idents, metas) = metadata_before

\* C14: add_metadata_key with a key or a value over its length limit fails
\* with the length error and leaves the root CID and the metadata map that
\* identity() gives as they were
C14_OverlongKeyOrValueRejected ==
    (done.op = "add_metadata_key" /\ IsNone(rwlock.writer)
        /\ \/ Len(Unwrap(done.arg).key) > MAX_METADATA_KEY_LENGTH
           \/ Len(Unwrap(done.arg).val) > MAX_METADATA_VALUE_LENGTH) =>
        /\ done.ret = "Err"
        /\ done.err = "InvalidLength"
        /\ nothing_written

\* a key one character over the limit offered to an account that has
\* metadata
C14_Witness ==
    /\ done.op = "add_metadata_key"
    /\ IsNone(rwlock.writer)
    /\ Len(Unwrap(done.arg).key) = MAX_METADATA_KEY_LENGTH + 1
    /\ metadata_before /= <<>>
    /\ done.ret = "Err"

\* a value one character over the limit offered with a key the map holds
C14_ValueWitness ==
    /\ done.op = "add_metadata_key"
    /\ IsNone(rwlock.writer)
    /\ Len(Unwrap(done.arg).val) = MAX_METADATA_VALUE_LENGTH + 1
    /\ has_key(metadata_before, Unwrap(done.arg).key)
    /\ done.ret = "Err"

\* the errors of the store and of signing, which are not the call's own
StoreErrors == {"Any", "Sign", "Verify"}

\* the metadata map never has more than MAX_METADATA_ENTRIES entries; on a
\* full map an add of a key within the length limits fails with limit_error
\* and changes nothing when the key is new, and succeeds with the value
\* replaced when the map holds the key
AtMostMaxEntries(limit_error) ==
    /\ Len(metadata(cid, roots, idents, metas)) <= MAX_METADATA_ENTRIES
    /\ (done.op = "add_metadata_key" /\ IsNone(rwlock.writer)
          /\ Len(Unwrap(done.arg).key) <= MAX_METADATA_KEY_LENGTH
          /\ Len(Unwrap(done.arg).val) <= MAX_METADATA_VALUE_LENGTH
          /\ Len(metadata_before) >= MAX_METADATA_ENTRIES) =>
          IF has_key(metadata_before, Unwrap(done.arg).key)
          THEN /\ done.ret = "Ok" \/ done.err \in StoreErrors
               /\ done.ret = "Ok" =>
                    /\ Len(metadata(cid, roots, idents, metas)) = Len(metadata_before)
                    /\ metadata(cid, roots, idents, metas)
                         = map_insert(metadata_before, Unwrap(done.arg).key,
                                      Unwrap(done.arg).val)
          ELSE /\ done.ret = "Err"
               /\ done.err = limit_error
               /\ nothing_written

\* C15: the metadata map has at most MAX_METADATA_ENTRIES entries; an add of
\* a new key to a full map fails with LimitExceeded and changes nothing, an
\* add of a key the full map holds succeeds and replaces its value
C15_MetadataAtMostMaxEntries == AtMostMaxEntries("LimitExceeded")

\* the same with the error the call gives, Error::Other
C15_FullMapRejectsNewKey == AtMostMaxEntries("Other")

\* a new key offered to a full map
C15_FullMapWitness ==
    /\ done.op = "add_metadata_key"
    /\ IsNone(rwlock.writer)
    /\ Len(metadata_before) = MAX_METADATA_ENTRIES
    /\ Len(Unwrap(done.arg).key) <= MAX_METADATA_KEY_LENGTH
    /\ Len(Unwrap(done.arg).val) <= MAX_METADATA_VALUE_LENGTH
    /\ ~has_key(metadata_before, Unwrap(done.arg).key)

\* a key of a full map given another value
C15_OverwriteWitness ==
    /\ done.op = "add_metadata_key"
    /\ done.ret = "Ok"
    /\ IsNone(rwlock.writer)
    /\ Len(metadata_before) = MAX_METADATA_ENTRIES
    /\ has_key(metadata_before, Unwrap(done.arg).key)
    /\ metadata(cid, roots, idents, metas) /= metadata_before
\* the keys of shard n of the chain before the last call are, in this order,
\* the first keys of shard n of the chain after it
keys_stay(before, after) ==
    /\ Len(shard_keys(before)) <= Len(shard_keys(after))
    /\ \A n \in 1..Len(shard_keys(before)) :
          /\ Len(shard_keys(before)[n]) <= Len(shard_keys(after)[n])
          /\ SubSeq(shard_keys(after)[n], 1, Len(shard_keys(before)[n]))
                = shard_keys(before)[n]

\* C21: remove(id) fails with MessageNotFound and leaves the list as it was
\* when id is no key of the chain or its entry is already marked None;
\* otherwise it marks that entry None; and no insert, update or remove takes
\* a key out of a shard's map or moves it to another shard
C21_RemoveMarksNoneInPlace ==
    /\ (last.op = "remove" /\ last.id \notin live_ids(last.pre)) =>
          (~last.ok /\ last.err = "MessageNotFound" /\ mrl = last.pre)
    /\ (last.op = "remove" /\ last.id \in live_ids(last.pre)) =>
          /\ last.ok
          /\ is_key(mrl, last.id)
          /\ stored(mrl, last.id) = None
          /\ live_ids(mrl) = live_ids(last.pre) \ {last.id}
          /\ shard_keys(mrl) = shard_keys(last.pre)
    /\ last.op \in {"insert", "update", "remove"} => keys_stay(last.pre, mrl)

\* a second remove of an id of the second shard
C21_Witness ==
    /\ last.op = "remove"
    /\ ~last.ok
    /\ last.id \in hist.removed
    /\ Len(shards(last.pre)) = 2
    /\ last.id \in map_keys(shards(last.pre)[2])

\* a remove of an id with a value, in a chain that has another entry marked None
C21_RemoveWitness ==
    /\ last.op = "remove"
    /\ last.ok
    /\ Cardinality(hist.removed) = 2

\* the messages of the entries with a value of shards n.. of a chain, shard
\* after shard and each shard in map order
RECURSIVE live_messages(_, _)
live_messages(self, n) ==
    IF n > Len(shards(self)) THEN <<>>
    ELSE [k \in 1..Cardinality(live(shards(self)[n])) |->
             Unwrap(SelectSeq(shards(self)[n], LAMBDA e : IsSome(e.ref))[k].ref)]
         \o live_messages(self, n + 1)

\* C22: on every chain insert, update and remove build, list() ends and
\* yields the message of every entry with a value once, shard after shard in
\* chain order, and nothing for an entry marked None
C22_ListYieldsLiveOnceInOrder ==
    /\ list(mrl, ipfs) = live_messages(mrl, 1)
    /\ ids_of(list(mrl, ipfs)) = live_ids(mrl)
    /\ Len(list(mrl, ipfs)) = Cardinality(live_ids(mrl))
    /\ ids_of(list(mrl, ipfs)) \cap hist.removed = {}

\* a chain of two shards, both with a message to yield, one entry marked None
C22_Witness ==
    /\ Len(shards(mrl)) = 2
    /\ hist.removed /= {}
    /\ live(shards(mrl)[1]) /= {}
    /\ live(shards(mrl)[2]) /= {}
    /\ last.op \in {"insert", "update", "remove"}

\* ---- the errors of the list operations
\* the error kinds that say a key is already there (root.rs:529, 617, 749)
ExistErrors == {"FriendExist", "PublicKeyIsBlocked", "FriendRequestExist"}

\* the list of its field the call that returned last found, and the list
\* there is now
list_before == field_list(done.pre.cid, field_of(done.op), done.pre.roots, done.pre.blobs)
list_now == field_list(cid, field_of(done.op), roots, blobs)

\* the call that returned last has left the root and its list as they were
root_and_list_kept ==
    /\ cid = done.pre.cid
    /\ data_store = done.pre.data_store
    /\ roots = done.pre.roots
    /\ list_now = list_before

\* an add of a key its list holds fails with one of the kinds and changes
\* nothing
AddExistingFails(kinds) ==
    (done.op \in AddOps /\ IsNone(rwlock.writer) /\ done.pre.cid /= None
        /\ Unwrap(done.arg) \in elems(list_before)) =>
        /\ done.ret = "Err"
        /\ done.err \in kinds
        /\ root_and_list_kept

\* C23: add_friend, add_block, add_block_by and add_request of a key that is
\* already in the list fail with an already-exists error and leave the
\* current root CID and the list as they were
C23_AddExistingFailsWithExist == AddExistingFails(ExistErrors)

\* what the code does: the same with PublicKeyIsntBlocked from add_block_by
C23_AddExistingChangesNothing ==
    AddExistingFails(ExistErrors \cup {"PublicKeyIsntBlocked"})

\* add_block_by of a key the blocked-by list holds
C23_Witness ==
    /\ done.op = "add_blockby_key"
    /\ IsNone(rwlock.writer)
    /\ Unwrap(done.arg) \in elems(list_before)
    /\ done.err = "PublicKeyIsntBlocked"

\* a remove of a key its list does not hold fails, with none of the kinds,
\* and changes nothing
RemoveAbsentFails(kinds) ==
    (done.op \in RemoveOps /\ IsNone(rwlock.writer) /\ done.pre.cid /= None
        /\ Unwrap(done.arg) \notin elems(list_before)) =>
        /\ done.ret = "Err"
        /\ done.err \notin kinds
        /\ root_and_list_kept

\* C24: remove_friend, remove_block, remove_block_by and remove_request of a
\* key that is not in the list fail with a doesn't-exist error, never an
\* already-exists one, and leave the current root CID and the list as they
\* were
C24_RemoveAbsentFailsWithDoesntExist == RemoveAbsentFails(ExistErrors)

\* what the code does: the same with FriendRequestExist from remove_request
C24_RemoveAbsentChangesNothing ==
    RemoveAbsentFails(ExistErrors \ {"FriendRequestExist"})

\* remove_request of a request the list does not hold, beside one it holds
C24_Witness ==
    /\ done.op = "remove_request"
    /\ IsNone(rwlock.writer)
    /\ list_before /= <<>>
    /\ Unwrap(done.arg) \notin elems(list_before)
    /\ done.err = "FriendRequestExist"

\* ---- the opening of an account
\* the list under name cannot be read: there is no root, the root or the list
\* is not in the store, the field is absent, or the list is not one encrypted
\* under the account's key
unreadable(name) ==
    \/ IsNone(cid)
    \/ Unwrap(cid) \notin roots
    \/ IsNone(Unwrap(cid)[name])
    \/ Unwrap(Unwrap(cid)[name]) \notin blobs
    \/ Unwrap(Unwrap(cid)[name]).enc /= Keypair

\* C25: get_friends, get_blocks, get_block_by and get_requests give Ok with
\* the empty list, never an error, when there is no root yet, when the field
\* is absent and when the list does not resolve or decrypt
C25_ListAccessorsNeverFail ==
    /\ \A name \in ListFields :
          /\ get_list(cid, name, roots, blobs).ok
          /\ get_list(cid, name, roots, blobs).val
                = Some(field_list(cid, name, roots, blobs))
          /\ unreadable(name) =>
                get_list(cid, name, roots, blobs) = Res(TRUE, "", Some(<<>>))
    /\ done.at = "get_list" => done.ret = "Ok"

\* get_requests on a root whose request list is encrypted under another key
C25_Witness ==
    /\ done.at = "get_list"
    /\ done.op = "request"
    /\ IsSome(cid)
    /\ Unwrap(cid) \in roots
    /\ IsSome(Unwrap(cid).request)
    /\ Unwrap(Unwrap(cid).request) \in blobs
    /\ Unwrap(Unwrap(cid).request).enc = "other"
    /\ done.val = Some(<<>>)

\* get_requests with no root yet, and on a root whose list is not stored
C25_NoRootWitness ==
    /\ done.at = "get_list"
    /\ IsNone(cid)
    /\ done.ret = "Ok"

C25_UnresolvedWitness ==
    /\ done.at = "get_list"
    /\ done.op = "request"
    /\ IsSome(cid)
    /\ Unwrap(cid) \in roots
    /\ IsSome(Unwrap(cid).request)
    /\ Unwrap(Unwrap(cid).request) \notin blobs
    /\ done.ret = "Ok"

\* get_requests that gives the requests of a list it can read
C25_ReadableWitness ==
    /\ done.at = "get_list"
    /\ done.op = "request"
    /\ ~unreadable("request")
    /\ done.val /= Some(<<>>)

\* the root that was current when the call that returned last began is still
\* pinned, if it was
previous_root_pinned ==
    (IsSome(done.pre.cid) /\ Unwrap(done.pre.cid) \in done.pre.pinned) =>
        Unwrap(done.pre.cid) \in pinned

\* a successful import has installed the document it was given and has not
\* deleted the root before it; a failed one has left the current root
ImportInstalls(pin_kept) ==
    /\ (done.op = "import" /\ done.ret = "Ok" /\ IsNone(rwlock.writer)) =>
          /\ IsSome(cid)
          /\ Unwrap(cid) \in roots
          /\ payload(Unwrap(cid)) = payload(Unwrap(done.arg))
          /\ done.pre.roots \subseteq roots
          /\ pin_kept
    /\ (done.op = "import" /\ done.ret = "Err" /\ IsNone(rwlock.writer)) =>
          /\ cid = done.pre.cid
          /\ data_store = done.pre.data_store
          /\ pinned = done.pre.pinned

\* C26: a successful import_root_cid(c) installs the imported document as
\* the current root and neither deletes nor unpins the root that was current
\* before; when c or a reference of it does not resolve, the import fails
\* and the current root is as before
C26_ImportKeepsPreviousRoot == ImportInstalls(previous_root_pinned)

\* what the code does: the same, but for the pin of the root before
C26_ImportInstalls == ImportInstalls(TRUE)

\* an import over another root has removed the pin of that root
C26_Witness ==
    /\ done.op = "import"
    /\ done.ret = "Ok"
    /\ IsNone(rwlock.writer)
    /\ IsSome(done.pre.cid)
    /\ Unwrap(done.pre.cid) \in done.pre.pinned
    /\ Unwrap(done.pre.cid) \notin pinned
    /\ Unwrap(done.pre.cid) \in roots

\* an import that fails on a reference of the root
C26_FailureWitness ==
    /\ done.op = "import"
    /\ done.at = "resolve2"
    /\ IsSome(cid)

\* the legacy request list the migrate that returned last has found
legacy_found ==
    IF /\ done.op = "migrate"
       /\ get_root_document(done.pre.cid, done.pre.roots).ok
       /\ IsSome(Unwrap(done.pre.cid).request)
    THEN old_requests(Unwrap(done.pre.cid).request, done.pre.blobs)
    ELSE <<>>

\* one record of the current schema per legacy record, of the same
\* direction and DID
same_requests(now, legacy) ==
    /\ Len(now) = Len(legacy)
    /\ \A k \in 1..Len(legacy) :
          /\ now[k].dir = legacy[k].dir
          /\ now[k].did = legacy[k].did
          /\ IsSome(now[k].date)

\* migrate has returned after its set_root_document, and no call has begun
\* since
migrated ==
    /\ done.op = "migrate"
    /\ done.ret = "Ok"
    /\ IsNone(rwlock.writer)
    /\ legacy_found /= <<>>

\* migrate has gone through with a legacy list: the new root is committed
\* and names the translated list
MigrateCommits ==
    migrated =>
       /\ IsSome(cid)
       /\ cid /= done.pre.cid
       /\ Unwrap(cid) \in roots
       /\ verify(Unwrap(cid))
       /\ data_store = Some(to_string(Unwrap(cid))) \/ done.ptr /= "ok"
       /\ IsSome(Unwrap(cid).request)
       /\ Unwrap(Unwrap(cid).request) \in blobs
       /\ same_requests(Unwrap(Unwrap(cid).request).json, legacy_found)

\* C27: when the request field of the root names a non-empty legacy list,
\* migrate commits a new root whose request list holds one record of the
\* current schema per legacy record, of the same direction and DID, and
\* get_requests returns those records afterwards
C27_MigratedRequestsAreReturned ==
    /\ MigrateCommits
    /\ migrated =>
          same_requests(Unwrap(get_list(cid, "request", roots, blobs).val),
                        legacy_found)

\* what the code does: the translated list is stored as a DAG list, which
\* request_list does not read, so get_requests returns no request
C27_MigratedRequestsAreStored ==
    /\ MigrateCommits
    /\ migrated =>
          /\ Unwrap(Unwrap(cid).request).enc = "dag"
          /\ get_list(cid, "request", roots, blobs) = Res(TRUE, "", Some(<<>>))
    /\ (/\ done.at = "get_list"
        /\ done.op = "request"
        /\ lastcs.op = "migrate"
        /\ IsSome(cid)
        /\ Unwrap(cid).request \in {Some(dag_list(translated(b.json))) : b \in LegacyLists}) =>
          done.val = Some(<<>>)

\* get_requests after a migrate that has committed two translated records
C27_Witness ==
    /\ done.at = "get_list"
    /\ done.op = "request"
    /\ lastcs = [op |-> "migrate", arg |-> None, ret |-> "Ok"]
    /\ IsSome(cid)
    /\ IsSome(Unwrap(cid).request)
    /\ Unwrap(cid).request = Some(dag_list(translated(
           <<OldRequest("In", "a"), OldRequest("Out", "b")>>)))
    /\ done.val = Some(<<>>)

\* RootDocumentMap::new has returned the map: migrate is over
new_completed == tk["t1"].pc /= "new" /\ tk["t1"].op /= "migrate"

\* the root of the snapshot has no request list, or one of the current
\* schema: encrypted bytes
absent_or_current(snap) ==
    /\ IsSome(snap.cid)
    /\ Unwrap(snap.cid) \in snap.roots
    /\ verify(Unwrap(snap.cid))
    /\ \/ IsNone(Unwrap(snap.cid).request)
       \/ /\ Unwrap(Unwrap(snap.cid).request) \in snap.blobs
          /\ Unwrap(Unwrap(snap.cid).request) \notin LegacyLists

\* the map takes calls: no task of it is left in a call and its lock is free
usable ==
    /\ tk["t1"] = NoTask
    /\ rwlock = [writer |-> None, readers |-> {}]
    /\ \A name \in ListFields : get_list(cid, name, roots, blobs).ok

\* the state of the map right after new
MigrateLeavesUsable ==
    (new_completed /\ done.op = "migrate" /\ IsNone(rwlock.writer)) =>
       /\ usable
       /\ done.ret = "Err" =>
             /\ cid = done.pre.cid
             /\ data_store = done.pre.data_store
             /\ pinned = done.pre.pinned
       /\ absent_or_current(done.pre) =>
             /\ done.ret = "Ok"
             /\ cid = done.pre.cid
             /\ data_store = done.pre.data_store
             /\ pinned = done.pre.pinned
             /\ roots = done.pre.roots
             /\ blobs = done.pre.blobs

\* C28: RootDocumentMap::new always completes with a usable map, whatever
\* step of migrate fails (no root, unreadable root, undecodable request
\* list, failed store, failed set); when the request list is absent or of
\* the current schema, migrate leaves the current root CID, the pointer and
\* the pins as they were
C28_NewCompletesUsable == []MigrateLeavesUsable /\ <>new_completed

\* new on a repository whose request list is of the current schema
C28_Witness ==
    /\ new_completed
    /\ done.op = "migrate"
    /\ done.at = "is_empty"
    /\ absent_or_current(done.pre)
    /\ IsSome(Unwrap(done.pre.cid).request)
    /\ cid = done.pre.cid

\* new on a repository whose request list an earlier migrate has stored
C28_MigratedWitness ==
    /\ new_completed
    /\ done.op = "migrate"
    /\ done.at = "is_empty"
    /\ absent_or_current(done.pre)
    /\ Unwrap(done.pre.cid).request \in {Some(b) : b \in MigratedLists}
    /\ cid = done.pre.cid

\* new on a repository with a legacy list, the store of the translation failing
C28_FailedStoreWitness ==
    /\ new_completed
    /\ done.op = "migrate"
    /\ done.at = "put_list"
    /\ done.ret = "Err"
    /\ usable

\* ... and the set of the new root failing
C28_FailedSetWitness ==
    /\ new_completed
    /\ done.op = "migrate"
    /\ done.at \in {"sign", "verify", "put_dag", "insert_pin"}
    /\ done.ret = "Err"
    /\ usable

\* new on a repository without a root, or with one that does not verify
C28_NoRootWitness ==
    /\ new_completed
    /\ done.op = "migrate"
    /\ done.at = "get_root"
    /\ usable

\* ---- the conversations and communities of the root
\* the map of the kind before the call that returned last, and now
map_before(kind) == conv_map(Unwrap(done.pre.cid)[kind], done.pre.cmaps)
map_now(kind) == conv_map(Unwrap(cid)[kind], cmaps)

\* the last write is a set of a tombstone that succeeded
tombstone_set ==
    /\ lastcs.op = "set_conversation"
    /\ lastcs.ret = "Ok"
    /\ IsNone(rwlock.writer)
    /\ Unwrap(lastcs.arg).document.deleted

\* C29: after set_conversation_document (or set_community_document) has
\* stored a document with deleted = true, its UUID is still a key of the
\* root-level map and the entries of the other conversations are as before,
\* get_conversation_document(id) fails with InvalidConversation
\* (InvalidCommunity for a community) and the list does not yield it
C29_TombstoneStaysInMap ==
    /\ (tombstone_set /\ done.op = "set_conversation") =>
          LET kind == Unwrap(done.arg).kind
              document == Unwrap(done.arg).document
          IN  /\ IsSome(cid)
              /\ DOMAIN map_now(kind) = DOMAIN map_before(kind) \cup {document.id}
              /\ map_now(kind)[document.id] = document
              /\ \A k \in DOMAIN map_before(kind) \ {document.id} :
                    map_now(kind)[k] = map_before(kind)[k]
              /\ \A other \in Kinds \ {kind} :
                    Unwrap(cid)[other] = Unwrap(done.pre.cid)[other]
              /\ get_conversation_document(cid, kind, document.id, roots, cmaps, convs)
                    = Res(FALSE, Invalid(kind), None)
              /\ \A d \in list_conversation_stream(cid, kind, roots, cmaps, convs) :
                    d.id /= document.id
    /\ (/\ tombstone_set
        /\ done.op = "get_conversation"
        /\ Unwrap(done.arg).kind = Unwrap(lastcs.arg).kind
        /\ Unwrap(done.arg).id = Unwrap(lastcs.arg).document.id) =>
          /\ done.ret = "Err"
          /\ done.err = Invalid(Unwrap(done.arg).kind)
    /\ (/\ tombstone_set
        /\ done.op = "list_conversation"
        /\ Unwrap(done.arg).kind = Unwrap(lastcs.arg).kind) =>
          \A d \in Unwrap(done.val) : d.id /= Unwrap(lastcs.arg).document.id

\* a tombstone set over a live entry beside another entry, and the list read
\* afterwards: it yields the other conversation alone
C29_Witness ==
    /\ tombstone_set
    /\ done.op = "list_conversation"
    /\ Unwrap(done.arg).kind = Unwrap(lastcs.arg).kind
    /\ Unwrap(lastcs.arg).document = gone_doc("c1")
    /\ DOMAIN map_now(Unwrap(done.arg).kind) = {"c1", "c2"}
    /\ Unwrap(done.val) = {live_doc("c2")}

\* ... and the get of the tombstone
C29_GetWitness ==
    /\ tombstone_set
    /\ done.op = "get_conversation"
    /\ Unwrap(done.arg).kind = Unwrap(lastcs.arg).kind
    /\ Unwrap(done.arg).id = "c1"
    /\ done.err \in {"InvalidConversation", "InvalidCommunity"}
    /\ DOMAIN map_now(Unwrap(done.arg).kind) = {"c1", "c2"}

\* a tombstone set over a live entry beside another entry
C29_SetWitness ==
    /\ tombstone_set
    /\ done.op = "set_conversation"
    /\ map_before(Unwrap(done.arg).kind)
          = conv_insert(conv_insert(EmptyMap, "c1", live_doc("c1")),
                        "c2", restored_doc("c2"))

\* the documents that the map of the kind named, and that were stored as
\* documents, so that they decode, when the call that returned last began
decoded(kind) == documents_of(map_before(kind)) \cap done.pre.convs

\* what a list has yielded: documents of the map that decode and are not
\* deleted, and that verify when checked is asked for
ListYields(checked) ==
    done.op = "list_conversation" =>
       /\ done.ret = "Ok"
       /\ \A d \in Unwrap(done.val) :
             /\ d \in decoded(Unwrap(done.arg).kind)
             /\ ~d.deleted
             /\ checked => verify_conversation(d)

\* C30: list_conversation_document and list_community_document yield only
\* entries that decode, pass the verification of their signature and are
\* not deleted, and the enumeration does not fail
C30_ListYieldsOnlyVerified == ListYields(TRUE)

\* what the code does: every entry that decodes and is not deleted is
\* yielded, verified or not
C30_ListYieldsDecoded ==
    /\ ListYields(FALSE)
    /\ done.op = "list_conversation" =>
          Unwrap(done.val) = not_deleted(decoded(Unwrap(done.arg).kind))

\* a list that has yielded a document whose signature does not verify, and
\* has dropped an entry that does not decode
C30_Witness ==
    /\ done.op = "list_conversation"
    /\ restored_doc("c2") \in Unwrap(done.val)
    /\ live_doc("c1") \in documents_of(map_before(Unwrap(done.arg).kind))
    /\ live_doc("c1") \notin Unwrap(done.val)

\* ---- C31
\* the call that returned last is a set_identity_status that gave Ok, and no
\* call has begun to write since
status_set ==
    /\ done.op = "set_identity_status"
    /\ done.ret = "Ok"
    /\ IsNone(rwlock.writer)

\* the fields of a root other than its identity and the signature over it
OtherFields == ListFields \cup {"conversations", "communities", "keystore", "file_index"}

\* C31: after set_status_indicator(s) gave Ok on an account with a root,
\* identity() gives an identity whose status is s; the current root is
\* stored and carries the account's signature, its identity is stored and
\* carries the account's signature, and every other field of the root is
\* the one of the root the call found.
C31_StatusIsSetAndRootKept ==
    status_set =>
        LET before == get_root_document(done.pre.cid, done.pre.roots)
            now == get_root_document(cid, roots)
            read == identity(cid, roots, idents)
        IN  /\ before.ok
            /\ now.ok
            /\ read.ok
            /\ Unwrap(read.val).status = done.arg
            /\ Unwrap(read.val) \in idents
            /\ verify_identity(Unwrap(read.val))
            /\ [Unwrap(read.val) EXCEPT !.status = None, !.signature = None]
                 = [Unwrap(before.val).identity EXCEPT !.status = None,
                                                      !.signature = None]
            /\ \A f \in OtherFields : Unwrap(now.val)[f] = Unwrap(before.val)[f]

\* a status was set on an account whose identity had another one, and the
\* root names lists, conversations, communities, keystore and file index
C31_Witness ==
    /\ status_set
    /\ done.arg = Some("away")
    /\ Unwrap(done.pre.cid).identity.status /= Some("away")
    /\ Unwrap(cid) /= Unwrap(done.pre.cid)
    /\ IsSome(Unwrap(cid).keystore)
    /\ IsSome(Unwrap(cid).friends)

\* ---- C35
\* the list field the call that returned last works on, in the root the call
\* found, and whether that field names a list that does not read
found_field == Unwrap(done.pre.cid)[field_of(done.op)]
found_unreadable ==
    /\ done.op \in AddOps \cup RemoveOps
    /\ IsNone(rwlock.writer)
    /\ get_root_document(done.pre.cid, done.pre.roots).ok
    /\ IsSome(found_field)
    /\ \/ Unwrap(found_field) \notin done.pre.blobs
       \/ Unwrap(found_field).enc /= Keypair

\* C35: when the field of the root is present and the list behind it is not
\* stored, is not encrypted under the account's key or is no JSON list,
\* add_X(k) fails only at a step of signing or storing, and when it gives Ok
\* the field of the current root names a stored list holding k alone;
\* remove_X(k) fails at its remove_item with the error it gives on an absent
\* field, and leaves the root as it was.
C35_UnreadableListIsEmpty ==
    found_unreadable =>
        IF done.op \in AddOps
        THEN /\ done.at \notin {"insert_item", "edit", "get_root"}
             /\ done.ret = "Ok" =>
                  /\ Unwrap(cid)[field_of(done.op)]
                       = Some(ecdh_encrypt(Keypair, <<Unwrap(done.arg)>>))
                  /\ Unwrap(Unwrap(cid)[field_of(done.op)]) \in blobs
                  /\ field_list(cid, field_of(done.op), roots, blobs)
                       = <<Unwrap(done.arg)>>
        ELSE /\ done.ret = "Err"
             /\ done.at = "edit"
             /\ done.err = unchanged_error(done.op)
             /\ cid = done.pre.cid
             /\ roots = done.pre.roots

\* add_X(k) gave Ok on a field whose unreadable list held k, for a list that
\* is not stored, one under another key and one that is no JSON list
added_over(op, blob, kept) ==
    /\ found_unreadable
    /\ done.op = op
    /\ done.ret = "Ok"
    /\ found_field = Some(blob)
    /\ (blob \in done.pre.blobs) = kept
    /\ Unwrap(done.arg) \in elems(blob.json)

C35_Witness ==
    added_over("add_friend", ecdh_encrypt("other", <<"a">>), TRUE)

C35_LostWitness ==
    added_over("add_request", ecdh_encrypt(Keypair, <<"b", "a">>), FALSE)

C35_GarbledWitness ==
    added_over("add_blockby_key", garbled_list(<<"a", "b">>), TRUE)

C35_BlockWitness ==
    added_over("block_key", garbled_list(<<"b">>), TRUE)

\* remove_X(k) failed on a field whose unreadable list held k
C35_RemoveWitness ==
    /\ found_unreadable
    /\ done.op \in RemoveOps
    /\ done.ret = "Err"
    /\ Unwrap(done.arg) \in elems(Unwrap(found_field).json)

\* ---- C40
\* the list of the root each operation is named after
ListNamed ==
    [add_friend |-> "friends", remove_friend |-> "friends",
     block_key |-> "blocks", unblock_key |-> "blocks",
     add_blockby_key |-> "block_by", remove_blockby_key |-> "block_by",
     add_request |-> "request", remove_request |-> "request"]

\* the call that returned last is an add_X / remove_X that gave Ok, and no
\* call has begun to write since
list_edited ==
    /\ done.op \in AddOps \cup RemoveOps
    /\ done.ret = "Ok"
    /\ IsNone(rwlock.writer)

\* C40: after an add_X / remove_X on friends, blocks, block_by or request
\* gave Ok, the identity, the three other list fields, conversations,
\* communities, keystore and file_index of the current root are those of the
\* root the call found.
C40_EditChangesOnlyItsList ==
    list_edited =>
        /\ get_root_document(cid, roots).ok
        /\ get_root_document(done.pre.cid, done.pre.roots).ok
        /\ \A f \in ({"identity"} \cup OtherFields) \ {ListNamed[done.op]} :
              Unwrap(cid)[f] = Unwrap(done.pre.cid)[f]

\* an add on a root whose nine fields all name an object
C40_Witness ==
    /\ list_edited
    /\ done.op = "add_blockby_key"
    /\ Unwrap(cid).block_by /= Unwrap(done.pre.cid).block_by
    /\ \A f \in OtherFields : IsSome(Unwrap(done.pre.cid)[f])
    /\ \A f \in OtherFields : IsSome(Unwrap(cid)[f])

\* a remove that left its list empty and cleared the field
C40_RemoveWitness ==
    /\ list_edited
    /\ done.op = "remove_friend"
    /\ IsNone(Unwrap(cid).friends)
    /\ \A f \in OtherFields \ {"friends"} : IsSome(Unwrap(cid)[f])

\* a remove that left keys in its list
C40_RequestWitness ==
    /\ list_edited
    /\ done.op = "remove_request"
    /\ IsSome(Unwrap(cid).request)

\* ---- C36
\* C36: after a set, add_friend or block_key that gave Ok, and before the
\* next write begins, the pointer in the data store parses to the current
\* root CID, so that RootDocumentMap::new on the same store starts from the
\* root a get gave before.
C36_PointerIsCurrentRoot ==
    (done.op \in Writes /\ done.ret = "Ok" /\ IsNone(rwlock.writer)) =>
        /\ IsSome(cid)
        /\ parse(data_store) = cid

\* the same for the calls whose write of the pointer succeeded
C36_PointerIsCurrentRootWhenWritten ==
    (/\ done.op \in Writes
     /\ done.ret = "Ok"
     /\ done.ptr = "ok"
     /\ IsNone(rwlock.writer)) =>
        /\ IsSome(cid)
        /\ parse(data_store) = cid

\* a set that gave Ok and left the pointer naming the root before
C36_StalePointerWitness ==
    /\ done.op = "set"
    /\ done.ret = "Ok"
    /\ done.ptr = "failed"
    /\ IsNone(rwlock.writer)
    /\ IsSome(done.pre.cid)
    /\ parse(data_store) = done.pre.cid
    /\ cid /= done.pre.cid

\* ---- MessageReferenceList over a store that fails
\* the store as one call finds it: the maps and lists in lost do not resolve
\* while the call runs, and puts more put_dag calls succeed
failing(lost, puts) == Store(msgs, maps \ lost.maps, lists \ lost.lists, puts)

\* every object resolves
NoLoss == [maps |-> {}, lists |-> {}]

\* the caller keeps the list the call left; the store holds what it held and
\* what the call put
CommitOver(r, lost, op, id, arg) ==
    Commit([r EXCEPT !.st.maps = @ \cup lost.maps, !.st.lists = @ \cup lost.lists],
           op, id, arg)

\* the first get_dag that fails decides how a call ends: one map or one
\* list of the chain does not resolve
OneLoss(self) ==
    {[maps |-> {shards(self)[n]}, lists |-> {}] : n \in 1..Len(shards(self))}
       \cup {[maps |-> {}, lists |-> {nexts(self)[n]}] : n \in 1..Len(nexts(self))}

\* a call makes one put_dag for each shard it went through and one for the
\* message, a shard it adds counted
PutsOf(self) == Len(shards(self)) + 2

\* a call finds every object and every put_dag succeeds, or finds an object
\* that does not resolve, or has one of its put_dag calls fail: every
\* get_dag of a call comes before its first put_dag
Failures(self) ==
    {[lost |-> NoLoss, puts |-> AllPuts]}
       \cup {[lost |-> lost, puts |-> AllPuts] : lost \in OneLoss(self)}
       \cup {[lost |-> NoLoss, puts |-> puts] : puts \in 0..(PutsOf(self) - 1)}

\* the messages handed to insert and update, which do not read the
\* signature
Signed == {message \in MessageDocuments : message.sig}

FailingInsert ==
    /\ calls < MaxCalls
    /\ \E message \in Signed, f \in Failures(mrl) :
          CommitOver(insert(mrl, message, failing(f.lost, f.puts)), f.lost,
                     "insert", message.id, Some(message))

FailingUpdate ==
    /\ calls < MaxCalls
    /\ \E message \in Signed, f \in Failures(mrl) :
          CommitOver(update(mrl, message, failing(f.lost, f.puts)), f.lost,
                     "update", message.id, Some(message))

FailingRemove ==
    /\ calls < MaxCalls
    /\ \E message_id \in MsgIds, f \in Failures(mrl) :
          CommitOver(remove(mrl, message_id, failing(f.lost, f.puts)), f.lost,
                     "remove", message_id, None)

NextRefFailing == FailingInsert \/ FailingUpdate \/ FailingRemove

\* the MessageReferenceList of one conversation under one caller, over a
\* store whose get_dag and put_dag may fail
SpecRefFailing == InitRef /\ [][NextRefFailing]_vars

\* ---- C32
\* C32: an insert, update or remove that returned an error, whether a map or
\* a list did not resolve or a put_dag of the message, the map or the next
\* shard failed, leaves the caller's messages and next as they were before
\* the call, and the maps and lists they name are still stored.
C32_FailureKeepsList ==
    (last.op \in {"insert", "update", "remove"} /\ ~last.ok) =>
        LET chain == shards(mrl)
            lower == nexts(mrl)
        IN  /\ mrl = last.pre
            /\ \A n \in 1..Len(chain) : chain[n] /= <<>> => chain[n] \in maps
            /\ \A n \in 1..Len(lower) : lower[n] \in lists

\* an insert into a second shard failed when the shard was to be stored,
\* after it had stored the message and the map of that shard
C32_Witness ==
    /\ last.op = "insert"
    /\ ~last.ok
    /\ last.err = "Any"
    /\ IsNone(mrl.next)
    /\ Len(shards(mrl)[1]) > REFERENCE_LENGTH
    /\ Unwrap(last.arg) \in msgs
    /\ \E map \in maps : contains_key(map, last.id) /\ ~is_key(mrl, last.id)

\* a remove failed because the next shard did not resolve
C32_ResolveWitness ==
    /\ last.op = "remove"
    /\ ~last.ok
    /\ last.err = "Any"
    /\ IsSome(stored(mrl, last.id))
    /\ ~contains_key(shards(mrl)[1], last.id)

\* an update failed when its map was to be stored
C32_UpdateWitness ==
    /\ last.op = "update"
    /\ ~last.ok
    /\ last.err = "Any"
    /\ Unwrap(last.arg) \in msgs
    /\ stored(mrl, last.id) /= last.arg

\* ---- C33
\* every entry of the map that has a value names a stored message
entries_stored(map) ==
    \A k \in 1..Len(map) : IsSome(map[k].ref) => Unwrap(map[k].ref) \in msgs

\* the map a list names is stored with the messages of its entries, the
\* next list it names is stored, and so on along the chain
RECURSIVE resolved(_)
resolved(self) ==
    /\ IsSome(self.messages) =>
          /\ Unwrap(self.messages) \in maps
          /\ entries_stored(Unwrap(self.messages))
    /\ IsSome(self.next) =>
          /\ Unwrap(self.next) \in lists
          /\ resolved(Unwrap(self.next))

\* C33: in every state, after calls that succeeded and calls that failed at
\* any step, the caller's list, every stored list and every stored map name
\* only objects that are stored: a next CID is held only by a list whose
\* child was stored before.
C33_HeldCidsAreStored ==
    /\ resolved(mrl)
    /\ \A l \in lists : resolved(l)
    /\ \A map \in maps : entries_stored(map)

\* an insert gave the list a next shard, which is stored with its map and
\* its message
C33_Witness ==
    /\ last.op = "insert"
    /\ last.ok
    /\ IsNone(last.pre.next)
    /\ IsSome(mrl.next)
    /\ Unwrap(mrl.next) \in lists
    /\ IsSome(Unwrap(mrl.next).messages)
    /\ Unwrap(last.arg) \in msgs

\* a remove in the second shard gave the list a new next shard while the
\* one before stays stored
C33_RemoveWitness ==
    /\ last.op = "remove"
    /\ last.ok
    /\ IsSome(last.pre.next)
    /\ mrl.next /= last.pre.next
    /\ {Unwrap(mrl.next), Unwrap(last.pre.next)} \subseteq lists

\* an insert failed after the map of the child was stored: no list names
\* that map
C33_ChildOnlyWitness ==
    /\ ~last.ok
    /\ last.op = "insert"
    /\ \E map \in maps :
          /\ contains_key(map, last.id)
          /\ mrl.messages /= Some(map)
          /\ \A l \in lists : l.messages /= Some(map)

\* ---- C34
\* C34: no step takes an object out of the store, and a copy of the caller's
\* list taken before a step and the list the call before was made on yield
\* after the step the messages they yielded before it.
C34_StoredObjectsNeverChange ==
    [][/\ msgs \subseteq msgs'
       /\ maps \subseteq maps'
       /\ lists \subseteq lists'
       /\ list(mrl, ipfs') = list(mrl, ipfs)
       /\ list(last.pre, ipfs') = list(last.pre, ipfs)]_vars

\* a remove went through, and the copy taken before it still yields the
\* message removed
C34_Witness ==
    /\ last.op = "remove"
    /\ last.ok
    /\ get(last.pre, last.id, ipfs).ok
    /\ ~get(mrl, last.id, ipfs).ok
    /\ Len(list(last.pre, ipfs)) = Len(list(mrl, ipfs)) + 1

\* an update went through, and the copy taken before it still gives the
\* message it held
C34_UpdateWitness ==
    /\ last.op = "update"
    /\ last.ok
    /\ get(last.pre, last.id, ipfs).ok
    /\ get(mrl, last.id, ipfs).val = last.arg
    /\ get(last.pre, last.id, ipfs).val /= last.arg

\* the same for the roots, lists, identities and metadata maps an account
\* has stored: no step takes one out of the store
C34_RootObjectsAreKept ==
    [][/\ roots \subseteq roots'
       /\ blobs \subseteq blobs'
       /\ idents \subseteq idents'
       /\ metas \subseteq metas']_vars

\* ---- C37
\* the places of the chain where id is a key: shard n, entry k
places(self, id) ==
    LET chain == shards(self)
    IN  {p \in (1..Len(chain)) \X (1..(REFERENCE_LENGTH + 1)) :
            /\ p[2] <= Len(chain[p[1]])
            /\ chain[p[1]][p[2]].id = id}

\* no shard holds more entries than the threshold lets in
within_threshold(self) ==
    \A n \in 1..Len(shards(self)) : Len(shards(self)[n]) <= REFERENCE_LENGTH + 1

\* C37: in the list of a conversation, built from the default list by
\* insert, update and remove calls that succeeded or failed, every message
\* id is a key of at most one shard, once.
C37_IdInAtMostOneShard ==
    /\ within_threshold(mrl)
    /\ \A id \in MsgIds : Cardinality(places(mrl, id)) <= 1

\* an insert of an id that the first shard holds failed on a chain of two
\* shards, and an id of the second shard is in no other
C37_Witness ==
    /\ last.op = "insert"
    /\ ~last.ok
    /\ last.err = "MessageFound"
    /\ Len(shards(mrl)) = 2
    /\ places(mrl, last.id) = {<<1, 1>>}
    /\ \E id \in MsgIds : places(mrl, id) = {<<2, 1>>}

\* an insert of an id removed before from the second shard failed
C37_RemovedWitness ==
    /\ last.op = "insert"
    /\ ~last.ok
    /\ last.err = "MessageFound"
    /\ places(mrl, last.id) = {<<2, 1>>}
    /\ IsNone(stored(mrl, last.id))

\* ---- C38
\* a shard is full: it holds more than REFERENCE_LENGTH entries, and insert
\* goes on to its next shard
full(map) == Len(map) > REFERENCE_LENGTH

\* C38: every shard that has a next shard is full, and the keys of every
\* shard that was full before the last call are, in the same order, its keys
\* after the call.
C38_NextOnlyWhenFullAndFullIsFrozen ==
    LET chain == shards(mrl)
        before == shards(last.pre)
    IN  /\ \A n \in 1..(Len(chain) - 1) : full(chain[n])
        /\ \A n \in 1..Len(before) :
              full(before[n]) =>
                 /\ n <= Len(chain)
                 /\ shard_keys(mrl)[n] = shard_keys(last.pre)[n]

\* an insert went past a full first shard into a second one
C38_Witness ==
    /\ last.op = "insert"
    /\ last.ok
    /\ full(shards(last.pre)[1])
    /\ Len(shards(mrl)) = 2
    /\ shard_keys(mrl)[2] /= <<>>
    /\ last.id \notin map_keys(shards(mrl)[1])

\* a remove took a value out of a full shard that has a next shard
C38_RemoveWitness ==
    /\ last.op = "remove"
    /\ last.ok
    /\ full(shards(last.pre)[1])
    /\ Len(shards(mrl)) = 2
    /\ last.id \in map_keys(shards(mrl)[1])
    /\ shards(mrl)[1] /= shards(last.pre)[1]

\* ---- C39
\* shrink returned Ok(new_list)
shrunk == last.op = "shrink" /\ last.ok

\* every entry of every shard of the chain has a value
no_tombstone(self) ==
    LET chain == shards(self)
    IN  \A n \in 1..Len(chain) :
           \A k \in 1..Len(chain[n]) : IsSome(chain[n][k].ref)

\* C39: the chain shrink returns has a message CID under every key of every
\* shard and yields the messages the chain handed in yields; that chain is
\* the caller's as before, and the maps and lists it names are still stored.
C39_ShrinkDropsTombstonesKeepsOriginal ==
    shrunk =>
        LET chain == shards(mrl)
            after == nexts(mrl)
        IN  /\ no_tombstone(Unwrap(last.out))
            /\ mrl = last.pre
            /\ \A n \in 1..Len(chain) : chain[n] /= <<>> => chain[n] \in maps
            /\ \A n \in 1..Len(after) : after[n] \in lists
            /\ list(Unwrap(last.out), ipfs) = list(mrl, ipfs)

\* shrink of a chain of two shards with a tombstone gave a shorter chain
C39_Witness ==
    /\ shrunk
    /\ ~no_tombstone(mrl)
    /\ Len(shards(mrl)) = 2
    /\ Len(shards(Unwrap(last.out))) = 1
    /\ list(mrl, ipfs) /= <<>>

====
